---- MODULE Spec2Model ----
(***************************************************************************)
(* Position lifecycle engine of the trading bot (TradingBot in             *)
(* src/services/trading/arbitrage/index.ts), the Jupiter swap outcomes it  *)
(* depends on, and the server's SIGTERM / SIGINT shutdown handlers.        *)
(*                                                                         *)
(* JavaScript runs every callback to completion up to its next await, so   *)
(* each action below is one such segment: the code from the resumption of  *)
(* one await to the suspension at the next one.  Values returned by the    *)
(* awaited collaborators (price feed, swap, whale and volume metrics) are  *)
(* inputs of the resuming segment, drawn with \E from small sets.          *)
(* Prices and quantities are integers chosen so that every percentage the  *)
(* code takes of them is exact.                                            *)
(***************************************************************************)
EXTENDS Integers, Sequences, FiniteSets, TLC

\* ---------------------------------------------------------------- bounds
MaxTicks == 2        \* position-monitoring callbacks that may overlap
MaxEvals == 2        \* evaluateSignal calls that may overlap
MaxObj == 2          \* Position objects alive at a time
MaxClockSteps == 2   \* advances of the wall clock
MaxFetches == 2      \* market-data fetches that may overlap
MaxCooldownSteps == 3  \* advances of the clock by half a resetTimeout
MaxCallers == 2      \* checkRateLimit calls that may overlap
MaxCalls == 12       \* checkRateLimit calls made in all
MaxWindowSteps == 3  \* advances of the clock by half a rate-limit window
MaxBackoffAttempt == 8   \* largest attempt number passed to exponentialBackoff
MaxRetryAttempts == 6    \* largest maxAttempts a caller of withRetry passes
MaxPriceCalls == 2       \* getTokenPrice calls that may overlap
MaxPriceClockSteps == 4  \* advances of the clock by half the price cache's ttl
MaxSignals == 5          \* signals passed to one evaluateSignals call
MaxSwaps == 2            \* JupiterDEX.swap calls that may overlap
MaxExits == 6            \* exits accounted for by exitPosition
MaxUpstream == 5         \* requests one getTokenPrice call sends upstream

\* ------------------------------------------------------ program constants
maxHoldingTime == 1800000
reallocateAfter == 900000
minimumProgress == 5
priceRangeThreshold == 2
volumeDeclineThreshold == 30
exitVolumeDecline == 40
stopLossInitial == 5
trailingCallback == 5
tp1Percent == 15
tp1SizePct == 30
tp2Percent == 30
tp2SizePct == 30
configuredTakeProfitLevels == 4   \* length of config.trading.takeProfitLevels
failureThreshold == 3             \* CIRCUIT_BREAKER, services/api.ts
resetTimeout == 300000
halfOpenMaxAttempts == 2
priceCacheTtl == 5000              \* priceCache = new LRUCache({ttl}), services/api.ts
priceMaxAge == 5000                \* getTokenPrice's test of cached.timestamp
MAX_SIGNALS_PER_STRATEGY == 3      \* SignalAggregator, services/trading/signalEvaluator.ts
whaleMinConfidence == 70           \* 0.7, in hundredths
minConfidence == 10                \* 0.10, in hundredths
unknownStrategyWeight == 1         \* 0.1, in tenths
maxSignalAge == 600000             \* validateSignal: 10 * 60 * 1000
MAX_PRICE_IMPACT == 3              \* JupiterDEX.swap, services/trading/solana/jupiter.ts
MAX_RETRIES == 3
baseSize == 20                     \* config.trading, services/trading/config.ts
maxSize == 50
accountRiskPerTrade == 2
highConfidence == 80               \* 0.8, in hundredths
mediumConfidence == 60             \* 0.6, in hundredths
minTradeHistory == 5               \* adjustConfidenceMultiplier
maxTradeHistory == 50
downwardPercent == 95              \* *= 0.95
upwardPercent == 101               \* *= 1.01

\* ------------------------------------------------------------ input sets
Symbols == {"A", "B"}
Traded == {"A"}           \* the symbol of the runs with one position
NoSym == "-"
SymOrder == <<"A", "B">>
SymIndex(s) == CHOOSE i \in 1..Len(SymOrder) : SymOrder[i] = s
EntryPrices == {200}
Prices == {180, 200, 230, 260, 280}
AmountsOut == {10}
VolumeSpikes == {50, 65, 100}   \* volumeSpikes.oneHour, in hundredths
PriceRanges == {1, 3}           \* getPriceRange, percent
SwapOutcomes == {"success", "failed", "throw"}
ClockStep == reallocateAfter + 1
StartOfTime == 1000 * 1000          \* any positive epoch: Date.now() is never 0

TickIds == 1..MaxTicks
SIGTERM == MaxTicks + 1
SIGINT == MaxTicks + 2
Handlers == {SIGTERM, SIGINT}
WATCHDOG == MaxTicks + 3            \* the server's monitoringInterval callback
Threads == TickIds \cup Handlers \cup {WATCHDOG}
EvalIds == 1..MaxEvals
ObjIds == 1..MaxObj

ExitReasons == <<"sideways_timeout", "sideways_detected", "whale_distribution",
                 "trailing_stop", "stop_loss", "take_profit", "volume_decline">>

VARIABLES
  now,                 \* Date.now()
  botInitialized, isRunning, shutdownRequested,
  positionsInterval,   \* the 1 s setInterval of startMonitoringLoops is live
  signalsInterval,     \* the signal-scan setInterval is live
  positions,           \* Map symbol -> Position object (0: no entry)
  order,               \* the Map's keys in insertion order
  positionStartTimes,  \* Map symbol -> ms (-1: no entry)
  heap,                \* the Position objects, shared by reference
  th,                  \* monitoring ticks and stop() callers: position in the code, locals
  ev,                  \* evaluateSignal callers
  startPc,             \* start(): position in the code
  timer,               \* forceExitTimeout of each signal handler is armed
  exitCode,            \* -1 while the process lives, else the process.exit code
  circuitStates,       \* services/api.ts: per source failures, lastFailure, state, attempts
  fetches,             \* market-data fetches of services/api.ts in flight
  rateLimiters,        \* services/api.ts: per source requests (times), nextReset
  limitCalls,          \* checkRateLimit calls in flight
  callCount,           \* checkRateLimit calls made so far
  admitted,            \* per source, the times of the admissions of the last window
  backoff,             \* the last exponentialBackoff call: attempt, delay, finalDelay
  retry,               \* a withRetry call: position in the code, locals
  priceCache,          \* services/api.ts: symbol -> price, timestamp (price 0: no entry)
  priceCalls,          \* getTokenPrice calls in flight
  lastCached,          \* per symbol, the price last stored in priceCache (0: none)
  incoming,            \* the signals gathered for the next evaluateSignals call
  storedOpen,          \* storage 'positions': the symbols whose status is 'open'
  evaluated,           \* the last evaluateSignals call: positions it read, its result
  swaps,               \* JupiterDEX.swap calls: position in the code, locals, result
  startup,             \* initialize(): what the positions query did, how it ended
  stats,               \* totalPnL, totalTrades, winningTrades, dailyStats
  tradeHistory,        \* the roi of the closed trades, in percent
  confidenceMultipliers,  \* config.trading.confidenceMultipliers, in 1/100000
  usdcBalance,
  lastExit,            \* the prices and quantity of the last exit accounted for
  sizing               \* two calculatePositionSize calls: inputs and result

vars == <<now, botInitialized, isRunning, shutdownRequested, positionsInterval,
          signalsInterval, positions, order, positionStartTimes, heap,
          th, ev, startPc, timer, exitCode,
          circuitStates, fetches,
          rateLimiters, limitCalls, callCount, admitted,
          backoff, retry, priceCache, priceCalls, lastCached,
          incoming, storedOpen, evaluated, swaps,
          startup, stats, tradeHistory, confidenceMultipliers, usdcBalance,
          lastExit, sizing>>

\* --------------------------------------------------------------- records
NoPos ==
  [entryPrice |-> 0, quantity |-> 0, remainingQuantity |-> 0, stopLoss |-> 0,
   takeProfitLevels |->
     [level1 |-> [price |-> 0, size |-> 0, hit |-> FALSE],
      level2 |-> [price |-> 0, size |-> 0, hit |-> FALSE]],
   trailingStop |->
     [active |-> FALSE, highestPrice |-> 0, currentStop |-> 0, callback |-> 0],
   openedAt |-> 0]

\* evaluateSignal's Position literal (openedAt: new Date())
NewPosition(price, amountOut) ==
  [entryPrice |-> price, quantity |-> amountOut, remainingQuantity |-> amountOut,
   stopLoss |-> (price * (100 - stopLossInitial)) \div 100,
   takeProfitLevels |->
     [level1 |-> [price |-> (price * (100 + tp1Percent)) \div 100,
                  size |-> tp1SizePct, hit |-> FALSE],
      level2 |-> [price |-> (price * (100 + tp2Percent)) \div 100,
                  size |-> tp2SizePct, hit |-> FALSE]],
   trailingStop |->
     [active |-> FALSE, highestPrice |-> price, currentStop |-> 0,
      callback |-> trailingCallback],
   openedAt |-> now]

ThreadIdle ==
  [pc |-> "idle", sym |-> NoSym, obj |-> 0, seen |-> {}, price |-> 0, age |-> 0,
   reason |-> "none", result |-> "none", exits |-> 0, held |-> {}]

Sources == {"binance", "coinbase", "coingecko"}
FetchIds == 1..MaxFetches

\* circuitStates' initial entry of a source
CircuitClosed ==
  [failures |-> 0, lastFailure |-> 0, state |-> "closed", attempts |-> 0]

FetchIdle ==
  [pc |-> "idle", source |-> "none", kind |-> "none", checked |-> FALSE,
   result |-> "none", saw |-> "none"]

\* config.trading.confidenceMultipliers, trading/config.ts lines 105-109, in
\* hundred-thousandths
configuredMultipliers == [low |-> 40000, medium |-> 60000, high |-> 100000]

\* RATE_LIMITS, services/api.ts lines 46-50
RATE_LIMITS ==
  [coingecko |-> [requests |-> 30, window |-> 60000],
   binance |-> [requests |-> 20, window |-> 60000],
   coinbase |-> [requests |-> 10, window |-> 60000]]

CallerIds == 1..MaxCallers

LimitCallIdle == [pc |-> "idle", source |-> "none", wakeAt |-> 0, oldest |-> 0]

\* BACKOFF_CONFIG, services/api.ts lines 94-98 (jitter: a tenth, see JitterOf)
BACKOFF_CONFIG == [initialDelay |-> 1000, maxDelay |-> 32000, factor |-> 2]

\* defaultOptions, services/trading/utils/retry.ts lines 11-15
defaultOptions ==
  [maxAttempts |-> 3, initialDelay |-> 1000, maxDelay |-> 10000, backoffFactor |-> 2]

\* what the operation of a withRetry call throws
RetryErrors == {"status429", "ECONNRESET", "AbortError", "status500", "TypeError"}

RetryIdle ==
  [pc |-> "idle", maxAttempts |-> 0, attempt |-> 0, calls |-> 0, delays |-> 0,
   delay |-> 0, lastError |-> "none", outcome |-> "none"]

FeedPrices == {200, 230}
PriceIds == 1..MaxPriceCalls
NoEntry == [price |-> 0, timestamp |-> 0]

PriceCallIdle ==
  [pc |-> "idle", sym |-> NoSym, cached |-> NoEntry, kind |-> "none", price |-> 0,
   had |-> 0,     \* had: the price last cached for the symbol when the call began
   asked |-> <<>>]   \* the sources a request was sent to, in order

\* the symbols with an entry in COINGECKO_IDS, services/api.ts lines 59-68
COINGECKO_IDS == {"A"}

\* the order of the sources in getTokenPrice, lines 162-191
SourceOrder == <<"coingecko", "binance", "coinbase">>

\* STRATEGY_WEIGHTS, signalEvaluator.ts lines 24-33, in tenths
STRATEGY_WEIGHTS ==
  [whale |-> 12, scalp |-> 13, pump |-> 12, social |-> 11, momentum |-> 10,
   test |-> 8, trend |-> 9, pattern |-> 8]

\* TradeSignals: confidence and momentum in hundredths
SignalSymbols == {"A", "B"}
SignalKinds ==
  {[symbol |-> "A", strategy |-> "whale", confidence |-> 80, momentum |-> 0],
   [symbol |-> "B", strategy |-> "whale", confidence |-> 60, momentum |-> 0],
   [symbol |-> "A", strategy |-> "scalp", confidence |-> 90, momentum |-> 0],
   [symbol |-> "B", strategy |-> "scalp", confidence |-> 50, momentum |-> 90],
   [symbol |-> "B", strategy |-> "social", confidence |-> 5, momentum |-> 0]}

NotEvaluated == [done |-> FALSE, open |-> {}, out |-> <<>>]

SwapIds == 1..MaxSwaps
QuoteImpacts == {1, 3, 4}       \* quote.priceImpactPct

SwapIdle ==
  [pc |-> "idle", attempt |-> 0, impact |-> 0, status |-> "none", amountOut |-> 0]

NotStarted == [load |-> "none", outcome |-> "none"]

\* the fields of lines 188-197
NoStats ==
  [totalPnL |-> 0, totalTrades |-> 0, winningTrades |-> 0,
   dailyStats |-> [trades |-> 0, wins |-> 0, pnl |-> 0, bestTrade |-> 0,
                   worstTrade |-> 0]]

NoExit == [entryPrice |-> 0, exitPrice |-> 0, remainingQuantity |-> 0]

NoSizing == [made |-> FALSE, confidence |-> 0, accountValue |-> 0, size |-> 0]

EvalIdle ==
  [pc |-> "idle", sym |-> NoSym, src |-> "none", price |-> 0, afterStop |-> FALSE,
   timestamp |-> 0]

Init ==
  /\ now = StartOfTime
  /\ botInitialized = FALSE
  /\ isRunning = FALSE
  /\ shutdownRequested = FALSE
  /\ positionsInterval = FALSE
  /\ signalsInterval = FALSE
  /\ positions = [s \in Symbols |-> 0]
  /\ order = <<>>
  /\ positionStartTimes = [s \in Symbols |-> -1]
  /\ heap = [o \in ObjIds |-> NoPos]
  /\ th = [t \in Threads |-> ThreadIdle]
  /\ ev = [e \in EvalIds |-> EvalIdle]
  /\ startPc = "idle"
  /\ timer = [h \in Handlers |-> FALSE]
  /\ exitCode = -1
  /\ circuitStates = [src \in Sources |-> CircuitClosed]
  /\ fetches = [r \in FetchIds |-> FetchIdle]
  /\ rateLimiters = [src \in Sources |->
        [requests |-> <<>>, nextReset |-> StartOfTime + RATE_LIMITS[src].window]]
  /\ limitCalls = [r \in CallerIds |-> LimitCallIdle]
  /\ callCount = 0
  /\ admitted = [src \in Sources |-> <<>>]
  /\ backoff = [attempt |-> -1, delay |-> 0, finalDelay |-> 0]
  /\ retry = RetryIdle
  /\ priceCache = [s \in Symbols |-> NoEntry]
  /\ priceCalls = [r \in PriceIds |-> PriceCallIdle]
  /\ lastCached = [s \in Symbols |-> 0]
  /\ incoming = <<>>
  /\ storedOpen = {}
  /\ evaluated = NotEvaluated
  /\ swaps = [w \in SwapIds |-> SwapIdle]
  /\ startup = NotStarted
  /\ stats = NoStats
  /\ tradeHistory = <<>>
  /\ confidenceMultipliers = configuredMultipliers
  /\ usdcBalance = 0
  /\ lastExit = NoExit
  /\ sizing = [first |-> NoSizing, last |-> NoSizing]

Alive == exitCode = -1

\* ------------------------------------------------------- pure helpers
Abs(x) == IF x < 0 THEN -x ELSE x

Size(P) == Cardinality({s \in Symbols : P[s] # 0})

\* Map iteration: entries are visited in insertion order, and an iterator
\* suspended at an await sees the entries inserted or deleted meanwhile.  An
\* iterator's place is kept as the set of keys it has visited and that are
\* still in the Map: every other key lies after its place.
Unseen(O, seen) == {i \in 1..Len(O) : O[i] \notin seen}

FirstUnseen(O, seen) ==
  O[CHOOSE i \in Unseen(O, seen) : \A j \in Unseen(O, seen) : i <= j]

Without(O, s) == SelectSeq(O, LAMBDA x : x # s)

\* The for-loops over this.positions.entries(): of the position-monitoring
\* callback (body: updatePosition) and of stop() (body: exitPosition with
\* reason bot_shutdown).  The value is the thread's record once the loop has
\* started its next iteration, or has ended.
LoopNext(t, seen, P, O) ==
  IF Unseen(O, seen) = {}
  THEN IF t \in TickIds THEN ThreadIdle ELSE [ThreadIdle EXCEPT !.pc = "s_status"]
  ELSE LET s == FirstUnseen(O, seen) IN
       [ThreadIdle EXCEPT !.sym = s, !.obj = P[s], !.seen = seen \cup {s},
                          !.pc = IF t \in TickIds THEN "u_price" ELSE "x_price",
                          !.reason = IF t \in TickIds THEN "none" ELSE "bot_shutdown",
                          !.exits = IF t \in TickIds THEN 0 ELSE 1]

\* an error that leaves updatePosition and is caught by the callback's own
\* try (lines 535-537) ends the for-loop
CaughtByCallback(t, seen, P, O) == ThreadIdle

\* the catch of updatePosition, lines 743-745: the error is logged,
\* updatePosition returns and the for-loop of the callback goes on
Caught(t, seen, P, O) == LoopNext(t, seen, P, O)

\* ------------------------------------------ exit triggers of updatePosition
SidewaysTimeout(pos, price, age) ==
  /\ age > maxHoldingTime
  /\ Abs(price - pos.entryPrice) * 100 < minimumProgress * pos.entryPrice

SidewaysDetected(age, vol, range) ==
  /\ age > reallocateAfter
  /\ vol < 100 - volumeDeclineThreshold
  /\ range < priceRangeThreshold

WhaleDistribution(pos, whale) == whale /\ pos.trailingStop.active

\* lines 703-707: the trailing stop ratchets before it is tested
TrailUpdate(pos, price) ==
  IF pos.trailingStop.active /\ price > pos.trailingStop.highestPrice
  THEN [pos EXCEPT !.trailingStop.highestPrice = price,
                   !.trailingStop.currentStop =
                      (price * (100 - pos.trailingStop.callback)) \div 100]
  ELSE pos

TrailingStopHit(pos, price) ==
  /\ pos.trailingStop.active
  /\ price <= TrailUpdate(pos, price).trailingStop.currentStop

StopLossHit(pos, price) == price <= pos.stopLoss

Tp1Due(pos, price) ==
  ~pos.takeProfitLevels.level1.hit /\ price >= pos.takeProfitLevels.level1.price

\* a second tier that is due from the first tier's price on
Tp2DueFromTier1(pos, price) ==
  ~pos.takeProfitLevels.level2.hit /\ price >= pos.takeProfitLevels.level1.price

Tp2Due(pos, price) ==
  ~pos.takeProfitLevels.level2.hit /\ price >= pos.takeProfitLevels.level2.price

VolumeDecline(vol) == vol < 100 - exitVolumeDecline

SellAmount(pos, level) == (pos.quantity * pos.takeProfitLevels[level].size) \div 100

\* the same checks with the stop loss tested before the trailing stop
PostWhaleExitStopLossFirst(pos, price, whale) ==
  IF WhaleDistribution(pos, whale) THEN "whale_distribution"
  ELSE IF StopLossHit(pos, price) THEN "stop_loss"
  ELSE IF TrailingStopHit(pos, price) THEN "trailing_stop"
  ELSE "none"

\* lines 697-717: the checks made in one segment once the whale metrics are in
PostWhaleExit(pos, price, whale) ==
  IF WhaleDistribution(pos, whale) THEN "whale_distribution"
  ELSE IF TrailingStopHit(pos, price) THEN "trailing_stop"
  ELSE IF StopLossHit(pos, price) THEN "stop_loss"
  ELSE "none"

\* what holds at a decision point, from the inputs the tick has by then
HeldCommon(pos, price, age) ==
  {r \in {"sideways_timeout", "trailing_stop", "stop_loss", "take_profit"} :
     \/ r = "sideways_timeout" /\ SidewaysTimeout(pos, price, age)
     \/ r = "trailing_stop" /\ TrailingStopHit(pos, price)
     \/ r = "stop_loss" /\ StopLossHit(pos, price)
     \/ r = "take_profit" /\ (Tp1Due(pos, price) \/ Tp2Due(pos, price))}

First(held) ==
  IF held = {} THEN "none"
  ELSE LET i == CHOOSE i \in 1..Len(ExitReasons) :
                   /\ ExitReasons[i] \in held
                   /\ \A j \in 1..(i - 1) : ExitReasons[j] \notin held
       IN ExitReasons[i]

\* ---------------------------------------------------- frames of the actions
EngineFlags == <<botInitialized, isRunning, shutdownRequested>>
Intervals == <<positionsInterval, signalsInterval>>
Table == <<positions, order>>
Process == <<timer, exitCode>>
Resilience == <<circuitStates, fetches>>
Limiter == <<rateLimiters, limitCalls, callCount, admitted>>
Retrying == <<backoff, retry>>
PriceFeed == <<priceCache, priceCalls, lastCached>>
Aggregation == <<incoming, storedOpen, evaluated>>
Dex == <<swaps>>
Accounting == <<stats, tradeHistory, confidenceMultipliers, usdcBalance, lastExit,
                sizing>>
Startup == <<startup>>
Services == <<Limiter, Retrying, PriceFeed, Aggregation, Dex, Accounting, Startup>>
BesideLimiter == <<Retrying, PriceFeed, Aggregation, Dex, Accounting, Startup>>
BesideRetrying == <<Limiter, PriceFeed, Aggregation, Dex, Accounting, Startup>>
BesidePriceFeed == <<Limiter, Retrying, Aggregation, Dex, Accounting, Startup>>
BesideAggregation == <<Limiter, Retrying, PriceFeed, Dex, Accounting, Startup>>
BesideDex == <<Limiter, Retrying, PriceFeed, Aggregation, Accounting, Startup>>
BesideAccounting == <<Limiter, Retrying, PriceFeed, Aggregation, Dex, Startup>>
BesideStartup == <<Limiter, Retrying, PriceFeed, Aggregation, Dex, Accounting>>
Engine == <<EngineFlags, Intervals, Table, positionStartTimes, heap, th, ev,
            startPc, Process>>

\* ------------------------------------------------------ Position objects
\* A Position is reachable from the table or from the locals of a suspended
\* call; one that is not is garbage, and its slot is free again.
Reachable(o, P, T) ==
  \/ \E s \in Symbols : P[s] = o
  \/ \E t \in Threads : T[t].obj = o

Gc(H, P, T) == [o \in ObjIds |-> IF Reachable(o, P, T) THEN H[o] ELSE NoPos]

Free == {o \in ObjIds : heap[o] = NoPos}

NthFree(k) == CHOOSE o \in Free : Cardinality({f \in Free : f < o}) = k - 1

\* ------------------------------------------------- initialize / recoverState
\* initialize() up to and including recoverState's positions.set loop: the
\* positions persisted as open are put in the table; positionStartTimes is
\* not written.
Recovered(R) ==
  LET fresh == {s \in R : positions[s] = 0}
      rank(s, S) == 1 + Cardinality({r \in S : SymIndex(r) < SymIndex(s)})
      obj(s) == NthFree(rank(s, R))
  IN
  /\ Cardinality(Free) >= Cardinality(R)
  /\ heap' = [o \in ObjIds |->
                IF \E s \in R : obj(s) = o
                THEN NewPosition(CHOOSE p \in EntryPrices : TRUE,
                                 CHOOSE a \in AmountsOut : TRUE)
                ELSE heap[o]]
  /\ positions' = [s \in Symbols |-> IF s \in R THEN obj(s) ELSE positions[s]]
  /\ order' = order \o [i \in 1..Cardinality(fresh) |->
                          CHOOSE s \in fresh : rank(s, fresh) = i]

\* what the query of recoverState, lines 297-300, does: it resolves with the
\* rows, resolves with {data: null, error}, or rejects
LoadOutcomes == {"rows", "error", "throw"}

\* initialize(), lines 216-259, with recoverState: botInitialized is set at
\* line 244, before the positions are loaded; an error that recoverState
\* throws is thrown on by initialize (lines 321-324, 255-258)
InitializeLoading(Stored, Loads) ==
  /\ Alive
  /\ ~botInitialized
  /\ botInitialized' = TRUE
  /\ \E load \in Loads :
       /\ IF load = "rows"
          THEN \E R \in SUBSET Stored : Recovered(R)
          ELSE UNCHANGED <<heap, Table>>
       /\ startup' = [load |-> load,
                      outcome |-> IF load = "throw" THEN "rejected" ELSE "resolved"]
  /\ UNCHANGED <<BesideStartup, Resilience, now, isRunning, shutdownRequested,
                 Intervals, positionStartTimes, th, ev, startPc, Process>>

\* initialize() when the query resolves with the rows
InitializeFrom(Stored) == InitializeLoading(Stored, {"rows"})

\* initialize() with at most one position persisted as open
Initialize == InitializeFrom(Traded)

\* ----------------------------------------------------------------- start()
\* lines 356-377: up to the await of updateBotStatus
StartCall ==
  /\ Alive
  /\ startPc = "idle"
  /\ ~(isRunning \/ shutdownRequested)
  /\ botInitialized
  /\ isRunning' = TRUE
  /\ shutdownRequested' = FALSE
  /\ startPc' = "st_status"
  /\ UNCHANGED <<Services, Resilience, now, botInitialized, Intervals, Table, positionStartTimes, heap,
                 th, ev, Process>>

\* lines 379-387: startMonitoringLoops, then the initial market scan
StartLoops ==
  /\ Alive
  /\ startPc = "st_status"
  /\ \E e \in EvalIds :
       /\ ev[e].pc = "idle"
       /\ ev' = [ev EXCEPT ![e] = [EvalIdle EXCEPT !.pc = "aggregating",
                                                  !.src = "initial"]]
  /\ positionsInterval' = TRUE
  /\ signalsInterval' = TRUE
  /\ startPc' = "idle"
  /\ UNCHANGED <<Services, Resilience, now, EngineFlags, Table, positionStartTimes, heap, th,
                 Process>>

\* ---------------------------------------------------------- evaluateSignal
EvalReturn(e) ==
  IF ev[e].src = "http" THEN EvalIdle
  ELSE [EvalIdle EXCEPT !.pc = "aggregating", !.src = ev[e].src]

\* signalsInterval callback, lines 512-518
ScanTick(e) ==
  /\ Alive
  /\ signalsInterval
  /\ ev[e].pc = "idle"
  /\ IF ~isRunning
     THEN /\ signalsInterval' = FALSE
          /\ UNCHANGED ev
     ELSE /\ ev' = [ev EXCEPT ![e] = [EvalIdle EXCEPT !.pc = "aggregating",
                                                     !.src = "scan"]]
          /\ UNCHANGED signalsInterval
  /\ UNCHANGED <<Services, Resilience, now, EngineFlags, positionsInterval, Table, positionStartTimes,
                 heap, th, startPc, Process>>

\* the scan has no (more) signals
ScanDone(e) ==
  /\ Alive
  /\ ev[e].pc = "aggregating"
  /\ ev' = [ev EXCEPT ![e] = EvalIdle]
  /\ UNCHANGED <<Services, Resilience, now, EngineFlags, Intervals, Table, positionStartTimes, heap,
                 th, startPc, Process>>

\* evaluateSignal(signal), lines 599-608: called for a signal of a scan, or by
\* POST /api/test-trade and the chat trade command; ts: signal.timestamp
EvalBeginAt(e, s, src, ts) ==
  /\ Alive
  /\ \/ src = "http" /\ ev[e].pc = "idle"
     \/ src # "http" /\ ev[e].pc = "aggregating" /\ ev[e].src = src
  /\ ev' = [ev EXCEPT ![e] =
              IF positions[s] # 0
              THEN (IF src = "http" THEN EvalIdle ELSE ev[e])
              ELSE [pc |-> "e_checks", sym |-> s, src |-> src, price |-> 0,
                    afterStop |-> shutdownRequested, timestamp |-> ts]]
  /\ UNCHANGED <<Services, Resilience, now, EngineFlags, Intervals, Table, positionStartTimes, heap,
                 th, startPc, Process>>

\* evaluateSignal of a signal made at the time of the call (timestamp: new Date())
EvalBegin(e, s, src) == EvalBeginAt(e, s, src, now)

\* lines 604-626: Promise.all resolves or rejects; the entry swap is called
EvalChecks(e) ==
  /\ Alive
  /\ ev[e].pc = "e_checks"
  /\ \E r \in {"throw", "unsafe", "whale", "ok"} :
       IF r = "ok"
       THEN \E p \in EntryPrices :
              ev' = [ev EXCEPT ![e].pc = "e_swap", ![e].price = p]
       ELSE ev' = [ev EXCEPT ![e] = EvalReturn(e)]
  /\ UNCHANGED <<Services, Resilience, now, EngineFlags, Intervals, Table, positionStartTimes, heap,
                 th, startPc, Process>>

\* a set that puts the key last whether or not the Map has it
KeysAfterSetAppending(O, P, s) == Append(O, s)

\* this.positions.set(signal.symbol, ...), line 630, on the Map's keys: a new
\* key goes last, a key the Map has keeps its place
KeysAfterSet(O, P, s) == IF P[s] = 0 THEN Append(O, s) ELSE O

\* lines 628-666: the swap has returned or thrown
EvalSwap(e) ==
  /\ Alive
  /\ ev[e].pc = "e_swap"
  /\ \E r \in SwapOutcomes :
       IF r = "success"
       THEN /\ Free # {}
            /\ LET o == NthFree(1) IN
               /\ positions' = [positions EXCEPT ![ev[e].sym] = o]
               /\ \E a \in AmountsOut :
                    heap' = Gc([heap EXCEPT ![o] = NewPosition(ev[e].price, a)],
                               positions', th)
            /\ positionStartTimes' = [positionStartTimes EXCEPT ![ev[e].sym] = now]
            /\ order' = KeysAfterSet(order, positions, ev[e].sym)
       ELSE UNCHANGED <<heap, positionStartTimes, Table>>
  /\ ev' = [ev EXCEPT ![e] = EvalReturn(e)]
  /\ UNCHANGED <<Services, Resilience, now, EngineFlags, Intervals, th, startPc, Process>>

\* --------------------------------------------- position-monitoring callback
\* lines 527-534: the interval fires; the loop reaches its first await
TickFire(t) ==
  /\ Alive
  /\ t \in TickIds
  /\ positionsInterval
  /\ th[t].pc = "idle"
  /\ IF ~isRunning
     THEN /\ positionsInterval' = FALSE
          /\ UNCHANGED th
     ELSE /\ th' = [th EXCEPT ![t] = LoopNext(t, {}, positions, order)]
          /\ UNCHANGED positionsInterval
  /\ UNCHANGED <<Services, Resilience, now, EngineFlags, signalsInterval, Table, positionStartTimes,
                 heap, ev, startPc, Process>>

\* move on in updatePosition; its locals go out of scope in exitPosition
Goto(rec, pc) ==
  [rec EXCEPT !.pc = pc,
              !.age = IF pc = "x_price" THEN 0 ELSE @,
              !.price = IF pc = "x_price" THEN 0 ELSE @,
              !.result = IF pc = "x_price" THEN "none" ELSE @]

\* await this.exitPosition(symbol, position, reason)
CallExit(rec, reason, held) ==
  [Goto(rec, "x_price") EXCEPT !.reason = reason, !.exits = @ + 1, !.held = held]

\* updatePosition lines 674-685: the price is in (or the fetch threw)
UpdatePrice(t) ==
  /\ Alive
  /\ t \in TickIds
  /\ th[t].pc = "u_price"
  /\ \/ th' = [th EXCEPT ![t] = Caught(t, th[t].seen, positions, order)]
     \/ \E p \in Prices :
          LET pos == heap[th[t].obj]
              start == positionStartTimes[th[t].sym]
              age == IF start = -1 THEN 0 ELSE now - start
              rec == [th[t] EXCEPT !.price = p, !.age = age]
          IN th' = [th EXCEPT ![t] =
                      IF SidewaysTimeout(pos, p, age)
                      THEN CallExit(rec, "sideways_timeout", HeldCommon(pos, p, age))
                      ELSE Goto(rec, IF age > reallocateAfter
                                     THEN "u_rvol1" ELSE "u_whale")]
  /\ heap' = Gc(heap, positions, th')
  /\ UNCHANGED <<Services, Resilience, now, EngineFlags, Intervals, Table, positionStartTimes,
                 ev, startPc, Process>>

\* lines 686-697: calculateRVOL and getPriceRange have returned (neither throws)
UpdateRvol1(t) ==
  /\ Alive
  /\ t \in TickIds
  /\ th[t].pc = "u_rvol1"
  /\ \E vol \in VolumeSpikes, range \in PriceRanges :
       LET pos == heap[th[t].obj] IN
       th' = [th EXCEPT ![t] =
                IF vol < 100 - volumeDeclineThreshold /\ range < priceRangeThreshold
                THEN CallExit(th[t], "sideways_detected",
                              HeldCommon(pos, th[t].price, th[t].age)
                                \cup {r \in {"sideways_detected"} :
                                        SidewaysDetected(th[t].age, vol, range)})
                ELSE Goto(th[t], "u_whale")]
  /\ UNCHANGED <<Services, Resilience, now, EngineFlags, Intervals, Table, positionStartTimes, heap,
                 ev, startPc, Process>>

\* where the tick goes once no exit fired: first tier, second tier, or volume
AfterExitChecks(pos, price) ==
  IF Tp1Due(pos, price) THEN "u_tp1"
  ELSE IF Tp2Due(pos, price) THEN "u_tp2"
  ELSE "u_rvol2"

\* lines 697-728: the whale metrics are in (getWhaleMetrics does not throw)
UpdateWhale(t) ==
  /\ Alive
  /\ t \in TickIds
  /\ th[t].pc = "u_whale"
  /\ \E whale \in BOOLEAN :
       LET pos == heap[th[t].obj]
           price == th[t].price
           r == PostWhaleExit(pos, price, whale)
           held == HeldCommon(pos, price, th[t].age)
                     \cup {x \in {"whale_distribution"} : WhaleDistribution(pos, whale)}
           moved == IF r = "whale_distribution" THEN pos ELSE TrailUpdate(pos, price)
       IN /\ heap' = [heap EXCEPT ![th[t].obj] = moved]
          /\ th' = [th EXCEPT ![t] =
                      IF r # "none" THEN CallExit(th[t], r, held)
                      ELSE Goto(th[t], AfterExitChecks(moved, price))]
  /\ UNCHANGED <<Services, Resilience, now, EngineFlags, Intervals, Table, positionStartTimes, ev,
                 startPc, Process>>

\* lines 721-728: executeSell for the first tier has returned (sellResult, kept
\* in result) or thrown
UpdateTp1(t) ==
  /\ Alive
  /\ t \in TickIds
  /\ th[t].pc = "u_tp1"
  /\ \E r \in SwapOutcomes :
       LET o == th[t].obj
           pos == heap[o]
           sold == [pos EXCEPT !.remainingQuantity = @ - SellAmount(pos, "level1"),
                               !.takeProfitLevels.level1.hit = TRUE]
       IN IF r = "throw"
          THEN /\ th' = [th EXCEPT ![t] = Caught(t, th[t].seen, positions, order)]
               /\ heap' = Gc(heap, positions, th')
          ELSE /\ heap' = [heap EXCEPT ![o] = sold]
               /\ th' = [th EXCEPT ![t] =
                           Goto([th[t] EXCEPT !.result = r],
                                IF Tp2Due(sold, th[t].price)
                                THEN "u_tp2" ELSE "u_rvol2")]
  /\ UNCHANGED <<Services, Resilience, now, EngineFlags, Intervals, Table, positionStartTimes, ev,
                 startPc, Process>>

\* lines 728-737: executeSell for the second tier has returned or thrown
UpdateTp2(t) ==
  /\ Alive
  /\ t \in TickIds
  /\ th[t].pc = "u_tp2"
  /\ \E r \in SwapOutcomes :
       LET o == th[t].obj
           pos == heap[o]
           price == th[t].price
           sold == [pos EXCEPT
                      !.remainingQuantity = @ - SellAmount(pos, "level2"),
                      !.takeProfitLevels.level2.hit = TRUE,
                      !.trailingStop.active = TRUE,
                      !.trailingStop.highestPrice = price,
                      !.trailingStop.currentStop =
                         (price * (100 - pos.trailingStop.callback)) \div 100]
       IN IF r = "throw"
          THEN /\ th' = [th EXCEPT ![t] = Caught(t, th[t].seen, positions, order)]
               /\ heap' = Gc(heap, positions, th')
          ELSE /\ heap' = [heap EXCEPT ![o] = sold]
               /\ th' = [th EXCEPT ![t] =
                           Goto([th[t] EXCEPT !.result = r], "u_rvol2")]
  /\ UNCHANGED <<Services, Resilience, now, EngineFlags, Intervals, Table, positionStartTimes, ev,
                 startPc, Process>>

\* lines 737-741: the second calculateRVOL has returned
UpdateRvol2(t) ==
  /\ Alive
  /\ t \in TickIds
  /\ th[t].pc = "u_rvol2"
  /\ \E vol \in VolumeSpikes :
       th' = [th EXCEPT ![t] =
                IF VolumeDecline(vol)
                THEN CallExit(th[t], "volume_decline",
                              HeldCommon(heap[th[t].obj], th[t].price, th[t].age)
                                \cup {"volume_decline"})
                ELSE LoopNext(t, th[t].seen, positions, order)]
  /\ heap' = Gc(heap, positions, th')
  /\ UNCHANGED <<Services, Resilience, now, EngineFlags, Intervals, Table, positionStartTimes,
                 ev, startPc, Process>>

\* ------------------------------------------------------------ exitPosition
\* lines 749-760: the price is in and the sell of remainingQuantity is called,
\* or the price fetch threw (catch at 807, then line 810)
ExitPrice(t) ==
  /\ Alive
  /\ th[t].pc = "x_price"
  /\ \/ /\ positionStartTimes' = [positionStartTimes EXCEPT ![th[t].sym] = -1]
        /\ th' = [th EXCEPT ![t] = LoopNext(t, th[t].seen, positions, order)]
     \/ /\ th' = [th EXCEPT ![t].pc = "x_swap", ![t].held = {}]
        /\ UNCHANGED positionStartTimes
  /\ heap' = Gc(heap, positions, th')
  /\ UNCHANGED <<Services, Resilience, now, EngineFlags, Intervals, Table, ev, startPc, Process>>

\* lines 761-796: the swap has thrown (catch at 807, then line 810), or it has
\* returned: the statistics are updated and storeTradeRecord is awaited
ExitSwap(t) ==
  /\ Alive
  /\ th[t].pc = "x_swap"
  /\ \E r \in SwapOutcomes :
       IF r = "throw"
       THEN /\ positionStartTimes' = [positionStartTimes EXCEPT ![th[t].sym] = -1]
            /\ th' = [th EXCEPT ![t] = LoopNext(t, th[t].seen, positions, order)]
       ELSE /\ th' = [th EXCEPT ![t].pc = "x_store", ![t].result = r]
            /\ UNCHANGED positionStartTimes
  /\ heap' = Gc(heap, positions, th')
  /\ UNCHANGED <<Services, Resilience, now, EngineFlags, Intervals, Table, ev, startPc, Process>>

\* what exitPosition does with the table once jupiter.swap has returned r
\* (line 806: the status of the result is not looked at)
TableAfterSell(P, sym, r) == [P EXCEPT ![sym] = 0]

\* lines 806-810: positions.delete(symbol), positionStartTimes.delete(symbol)
ExitStore(t) ==
  /\ Alive
  /\ th[t].pc = "x_store"
  /\ LET sym == th[t].sym
         present == {s \in Symbols : positions'[s] # 0}
     IN /\ positions' = TableAfterSell(positions, sym, th[t].result)
        /\ order' = IF positions'[sym] = 0 THEN Without(order, sym) ELSE order
        /\ positionStartTimes' = [positionStartTimes EXCEPT ![sym] = -1]
        /\ th' = [x \in Threads |->
                    IF x = t
                    THEN LoopNext(t, th[t].seen \cap present, positions', order')
                    ELSE [th[x] EXCEPT !.seen = @ \cap present]]
  /\ heap' = Gc(heap, positions', th')
  /\ UNCHANGED <<Services, Resilience, now, EngineFlags, Intervals, ev, startPc, Process>>

\* ------------------------------------------------- stop() and the handlers
\* process.on('SIGTERM' | 'SIGINT'): arm forceExitTimeout, call bot.stop(),
\* which sets the flags and starts its loop over the table (lines 407-414)
SigReceive(h) ==
  /\ Alive
  /\ h \in Handlers
  /\ th[h].pc = "idle"
  /\ timer' = [timer EXCEPT ![h] = TRUE]
  /\ shutdownRequested' = TRUE
  /\ isRunning' = FALSE
  /\ th' = [th EXCEPT ![h] = LoopNext(h, {}, positions, order)]
  /\ UNCHANGED <<Services, Resilience, now, botInitialized, Intervals, Table, positionStartTimes, heap,
                 ev, startPc, exitCode>>

\* lines 420-428: updateBotStatus has returned; 'stopped' is logged; back in
\* the handler the intervals are cleared and server.close is called
StopReport(h) ==
  /\ Alive
  /\ h \in Handlers
  /\ th[h].pc = "s_status"
  /\ th' = [th EXCEPT ![h].pc = "h_closing"]
  /\ UNCHANGED <<Services, Resilience, now, EngineFlags, Intervals, Table, positionStartTimes, heap,
                 ev, startPc, Process>>

\* a server.close callback that clears the timer and returns
ServerClosedNoExit(h) ==
  /\ Alive
  /\ h \in Handlers
  /\ th[h].pc = "h_closing"
  /\ timer' = [timer EXCEPT ![h] = FALSE]
  /\ UNCHANGED <<Services, Resilience, now, EngineFlags, Intervals, Table, positionStartTimes, heap,
                 th, ev, startPc, exitCode>>

\* the callback of server.close: clearTimeout, process.exit(0)
ServerClosed(h) ==
  /\ Alive
  /\ h \in Handlers
  /\ th[h].pc = "h_closing"
  /\ timer' = [timer EXCEPT ![h] = FALSE]
  /\ exitCode' = 0
  /\ UNCHANGED <<Services, Resilience, now, EngineFlags, Intervals, Table, positionStartTimes, heap,
                 th, ev, startPc>>

\* the catch of the handler (an exception in its try block): clearTimeout,
\* process.exit(1)
HandlerCatch(h) ==
  /\ Alive
  /\ h \in Handlers
  /\ th[h].pc = "s_status"
  /\ timer' = [timer EXCEPT ![h] = FALSE]
  /\ exitCode' = 1
  /\ UNCHANGED <<Services, Resilience, now, EngineFlags, Intervals, Table, positionStartTimes, heap,
                 th, ev, startPc>>

\* forceExitTimeout fires: process.exit(1)
ForceExit(h) ==
  /\ Alive
  /\ h \in Handlers
  /\ timer[h]
  /\ exitCode' = 1
  /\ UNCHANGED <<Services, Resilience, now, EngineFlags, Intervals, Table, positionStartTimes, heap,
                 th, ev, startPc, timer>>

\* ------------------------------------- the server's inactivity watchdog
\* part_001 lines 122-128: the bot is taken for inactive and bot.stop() is
\* called, which sets the flags and starts its loop over the table (407-414)
WatchdogStop ==
  /\ Alive
  /\ botInitialized
  /\ th[WATCHDOG].pc = "idle"
  /\ shutdownRequested' = TRUE
  /\ isRunning' = FALSE
  /\ th' = [th EXCEPT ![WATCHDOG] = LoopNext(WATCHDOG, {}, positions, order)]
  /\ UNCHANGED <<Services, Resilience, now, botInitialized, Intervals, Table,
                 positionStartTimes, heap, ev, startPc, Process>>

\* lines 420-428: stop() has returned; part_001 line 129: the 5 s wait begins
WatchdogWait ==
  /\ Alive
  /\ th[WATCHDOG].pc = "s_status"
  /\ th' = [th EXCEPT ![WATCHDOG].pc = "w_wait"]
  /\ UNCHANGED <<Services, Resilience, now, EngineFlags, Intervals, Table,
                 positionStartTimes, heap, ev, startPc, Process>>

\* part_001 line 130: the wait is over and bot.start() is called; start()
\* lines 356-377: it returns at once, or sets the flags and goes on to its
\* updateBotStatus await
WatchdogStart ==
  /\ Alive
  /\ th[WATCHDOG].pc = "w_wait"
  /\ startPc = "idle"
  /\ th' = [th EXCEPT ![WATCHDOG] = ThreadIdle]
  /\ IF isRunning \/ shutdownRequested
     THEN UNCHANGED <<isRunning, shutdownRequested, startPc>>
     ELSE /\ isRunning' = TRUE
          /\ shutdownRequested' = FALSE
          /\ startPc' = "st_status"
  /\ UNCHANGED <<Services, Resilience, now, botInitialized, Intervals, Table,
                 positionStartTimes, heap, ev, Process>>

\* ------------------------------------------------------------------ clock
AdvanceTime ==
  /\ Alive
  /\ now < StartOfTime + MaxClockSteps * ClockStep
  /\ now' = now + ClockStep
  /\ UNCHANGED <<Services, Resilience, EngineFlags, Intervals, Table, positionStartTimes, heap, th, ev, startPc, Process>>

\* ------------------------------------------ circuit breaker (services/api.ts)
\* a checkCircuitBreaker that lets an open circuit through at any time
checkCircuitBreakerNoCooldown(c, t) ==
  LET c1 == IF c.state = "open"
            THEN [c EXCEPT !.state = "half-open", !.attempts = 0]
            ELSE c
  IN IF c1.state = "half-open" /\ c1.attempts >= halfOpenMaxAttempts
     THEN [circuit |-> [c1 EXCEPT !.state = "open"], ok |-> FALSE]
     ELSE [circuit |-> c1, ok |-> TRUE]

\* checkCircuitBreaker(source) at time t: the circuit it leaves and its result
checkCircuitBreaker(c, t) ==
  LET cooled == t - c.lastFailure >= resetTimeout
      c1 == IF c.state = "open" /\ cooled
            THEN [c EXCEPT !.state = "half-open", !.attempts = 0]
            ELSE c
  IN IF c.state = "open" /\ ~cooled
     THEN [circuit |-> c, ok |-> FALSE]
     ELSE IF c1.state = "half-open" /\ c1.attempts >= halfOpenMaxAttempts
     THEN [circuit |-> [c1 EXCEPT !.state = "open"], ok |-> FALSE]
     ELSE [circuit |-> c1, ok |-> TRUE]

\* a recordApiResult that opens the circuit one failure late
recordApiResultLate(c, success, t) ==
  IF success
  THEN [c EXCEPT !.state = IF @ = "half-open" THEN "closed" ELSE @,
                 !.failures = 0, !.attempts = 0]
  ELSE LET c1 == [c EXCEPT !.failures = @ + 1, !.lastFailure = t,
                           !.attempts = IF c.state = "half-open" THEN @ + 1 ELSE @]
       IN IF c1.failures > failureThreshold
          THEN [c1 EXCEPT !.state = "open"] ELSE c1

\* a recordApiResult whose success leaves the circuit's state as it is
recordApiResultNoClose(c, success, t) ==
  IF success
  THEN [c EXCEPT !.failures = 0, !.attempts = 0]
  ELSE LET c1 == [c EXCEPT !.failures = @ + 1, !.lastFailure = t,
                           !.attempts = IF c.state = "half-open" THEN @ + 1 ELSE @]
       IN IF c1.failures >= failureThreshold
          THEN [c1 EXCEPT !.state = "open"] ELSE c1

\* recordApiResult(source, success) at time t
recordApiResult(c, success, t) ==
  IF success
  THEN [c EXCEPT !.state = IF @ = "half-open" THEN "closed" ELSE @,
                 !.failures = 0, !.attempts = 0]
  ELSE LET c1 == [c EXCEPT !.failures = @ + 1, !.lastFailure = t,
                           !.attempts = IF c.state = "half-open" THEN @ + 1 ELSE @]
       IN IF c1.failures >= failureThreshold
          THEN [c1 EXCEPT !.state = "open"] ELSE c1

\* fetchBinanceHistory lines 397-402: the circuit check; a refused request
\* returns null without an upstream call
HistoryBegin(r) ==
  /\ Alive
  /\ fetches[r].pc = "idle"
  /\ LET chk == checkCircuitBreaker(circuitStates["binance"], now) IN
     /\ circuitStates' = [circuitStates EXCEPT !["binance"] = chk.circuit]
     /\ fetches' = [fetches EXCEPT ![r] =
          [FetchIdle EXCEPT !.source = "binance", !.kind = "history",
                            !.saw = circuitStates["binance"].state,
                            !.pc = IF chk.ok THEN "h_limit" ELSE "h_done",
                            !.result = IF chk.ok THEN "none" ELSE "refused"]]
  /\ UNCHANGED <<Services, now, Engine>>

\* lines 402-416: checkRateLimit has returned; a cached history is returned,
\* or the klines request is sent
HistoryCache(r) ==
  /\ Alive
  /\ fetches[r].pc = "h_limit"
  /\ \/ fetches' = [fetches EXCEPT ![r].pc = "h_done", ![r].result = "cached"]
     \/ fetches' = [fetches EXCEPT ![r].pc = "fetching", ![r].checked = TRUE]
  /\ UNCHANGED <<Services, now, Engine, circuitStates>>

\* lines 414-449: a response is in (USDC or USDT pair), or the third attempt
\* has failed
HistoryResponse(r) ==
  /\ Alive
  /\ fetches[r].pc = "fetching"
  /\ fetches[r].kind = "history"
  /\ fetches[r].source = "binance"
  /\ \E res \in {"ok", "failed"} :
       fetches' = [fetches EXCEPT ![r].pc = "h_result", ![r].result = res]
  /\ UNCHANGED <<Services, now, Engine, circuitStates>>

\* lines 424, 435, 450: response.json() or the last backoff has returned;
\* recordApiResult; return
HistoryRecord(r) ==
  /\ Alive
  /\ fetches[r].pc = "h_result"
  /\ circuitStates' = [circuitStates EXCEPT !["binance"] =
        recordApiResult(@, fetches[r].result = "ok", now)]
  /\ fetches' = [fetches EXCEPT ![r].pc = "h_done",
                                ![r].saw = circuitStates["binance"].state]
  /\ UNCHANGED <<Services, now, Engine>>

\* the caller resumes with the value returned
FetchReturn(r) ==
  /\ Alive
  /\ fetches[r].pc = "h_done"
  /\ fetches' = [fetches EXCEPT ![r] = FetchIdle]
  /\ UNCHANGED <<Services, now, Engine, circuitStates>>

\* fetchCoinGeckoPrice, fetchBinancePrice, fetchCoinbasePrice (203-260) and
\* fetchCoinbaseHistory, fetchCoinGeckoHistory (459-519): checkRateLimit,
\* then the request, with no circuit check
PlainFetch(r, src, kind) ==
  /\ Alive
  /\ fetches[r].pc = "idle"
  /\ kind \in {"price", "history"}
  /\ ~(src = "binance" /\ kind = "history")
  /\ fetches' = [fetches EXCEPT ![r] =
        [FetchIdle EXCEPT !.source = src, !.kind = kind, !.pc = "fetching"]]
  /\ UNCHANGED <<Services, now, Engine, circuitStates>>

\* their response is in, or the request failed: nothing is recorded
PlainResponse(r) ==
  /\ Alive
  /\ fetches[r].pc = "fetching"
  /\ ~(fetches[r].source = "binance" /\ fetches[r].kind = "history")
  /\ \E res \in {"ok", "failed"} :
       fetches' = [fetches EXCEPT ![r].pc = "h_done", ![r].result = res]
  /\ UNCHANGED <<Services, now, Engine, circuitStates>>

\* the clock, in steps of half a resetTimeout
CooldownStep ==
  /\ Alive
  /\ now < StartOfTime + MaxCooldownSteps * (resetTimeout \div 2)
  /\ now' = now + resetTimeout \div 2
  /\ UNCHANGED <<Services, Engine, Resilience>>

\* ------------------------------------------- rate limiter (services/api.ts)
\* a checkRateLimit that waits half the time
checkRateLimitEarly(l, limit, t) ==
  LET l1 == IF t >= l.nextReset
            THEN [requests |-> <<>>, nextReset |-> t + limit.window]
            ELSE l
      kept == SelectSeq(l1.requests, LAMBDA time : t - time < limit.window)
      waitTime == (limit.window - (t - kept[1])) \div 2
  IN IF Len(kept) >= limit.requests /\ waitTime > 0
     THEN [limiter |-> [l1 EXCEPT !.requests = kept], waitTime |-> waitTime,
           oldest |-> kept[1]]
     ELSE [limiter |-> [l1 EXCEPT !.requests = Append(kept, t)], waitTime |-> 0,
           oldest |-> 0]

\* checkRateLimit(source) at time t, lines 263-279, up to its await or its
\* return: the limiter it leaves, and the time to wait (0: the request is
\* pushed and the call returns)
checkRateLimit(l, limit, t) ==
  LET l1 == IF t >= l.nextReset
            THEN [requests |-> <<>>, nextReset |-> t + limit.window]
            ELSE l
      kept == SelectSeq(l1.requests, LAMBDA time : t - time < limit.window)
      waitTime == limit.window - (t - kept[1])
  IN IF Len(kept) >= limit.requests /\ waitTime > 0
     THEN [limiter |-> [l1 EXCEPT !.requests = kept], waitTime |-> waitTime,
           oldest |-> kept[1]]
     ELSE [limiter |-> [l1 EXCEPT !.requests = Append(kept, t)], waitTime |-> 0,
           oldest |-> 0]

\* the admissions of a source that are less than a window old, with a new one
Admit(a, window, t) ==
  Append(SelectSeq(a, LAMBDA time : t - time < window), t)

\* one run of checkRateLimit's body for caller r
RateLimitBody(r, src) ==
  LET res == checkRateLimit(rateLimiters[src], RATE_LIMITS[src], now) IN
  /\ rateLimiters' = [rateLimiters EXCEPT ![src] = res.limiter]
  /\ IF res.waitTime > 0
     THEN /\ limitCalls' = [limitCalls EXCEPT ![r] =
                [pc |-> "waiting", source |-> src, wakeAt |-> now + res.waitTime,
                 oldest |-> res.oldest]]
          /\ UNCHANGED admitted
     ELSE /\ limitCalls' = [limitCalls EXCEPT ![r] = LimitCallIdle]
          /\ admitted' = [admitted EXCEPT ![src] =
                Admit(@, RATE_LIMITS[src].window, now)]

\* a fetch function calls checkRateLimit(source)
RateLimitCall(r, src) ==
  /\ Alive
  /\ limitCalls[r].pc = "idle"
  /\ callCount < MaxCalls
  /\ callCount' = callCount + 1
  /\ RateLimitBody(r, src)
  /\ UNCHANGED <<now, Engine, Resilience, BesideLimiter>>

\* lines 275-276: the timeout has fired; checkRateLimit(source) again
RateLimitWake(r) ==
  /\ Alive
  /\ limitCalls[r].pc = "waiting"
  /\ now >= limitCalls[r].wakeAt
  /\ RateLimitBody(r, limitCalls[r].source)
  /\ UNCHANGED <<now, Engine, Resilience, BesideLimiter, callCount>>

\* the clock, in steps of half a window; it goes on while a caller waits
WindowStep ==
  /\ Alive
  /\ \/ now < StartOfTime + MaxWindowSteps * (RATE_LIMITS["coinbase"].window \div 2)
     \/ \E r \in CallerIds : limitCalls[r].pc = "waiting" /\ limitCalls[r].wakeAt > now
  /\ now' = now + RATE_LIMITS["coinbase"].window \div 2
  /\ UNCHANGED <<Engine, Resilience, Limiter, BesideLimiter>>


\* ------------------------------- backoff (services/api.ts, utils/retry.ts)
Min(a, b) == IF a < b THEN a ELSE b

RECURSIVE Pow(_, _)
Pow(b, n) == IF n = 0 THEN 1 ELSE b * Pow(b, n - 1)

\* an exponentialBackoff without the ceiling
exponentialBackoffUncapped(attempt) ==
  BACKOFF_CONFIG.initialDelay * Pow(BACKOFF_CONFIG.factor, attempt)

\* exponentialBackoff(attempt), lines 102-105: the delay before the jitter
exponentialBackoff(attempt) ==
  Min(BACKOFF_CONFIG.initialDelay * Pow(BACKOFF_CONFIG.factor, attempt),
      BACKOFF_CONFIG.maxDelay)

\* line 106: delay * 0.1 * (Math.random() - 0.5), at the ends and the middle
JitterOf(delay) == {-(delay \div 20), 0, delay \div 20}

\* exponentialBackoff(attempt) is called: by fetchCoinGeckoPrice with the
\* number of requests in the window (223), by fetchBinanceHistory with its
\* attempt (446)
Backoff(n) ==
  /\ Alive
  /\ \E j \in JitterOf(exponentialBackoff(n)) :
       backoff' = [attempt |-> n, delay |-> exponentialBackoff(n),
                   finalDelay |-> exponentialBackoff(n) + j]
  /\ UNCHANGED <<now, Engine, Resilience, BesideRetrying, retry>>

\* a shouldRetry that takes every error for a retryable one
shouldRetryAny(error) == TRUE

\* defaultOptions.shouldRetry, retry.ts lines 16-22
shouldRetry(error) ==
  IF error = "status429" THEN TRUE
  ELSE IF error = "ECONNRESET" THEN TRUE
  ELSE IF error = "AbortError" THEN TRUE
  ELSE FALSE

\* a test that lets one more failure through to the delay
lastAttemptLate(attempt, maxAttempts) == attempt >= maxAttempts

\* withRetry line 39: attempt + 1 >= opts.maxAttempts
lastAttempt(attempt, maxAttempts) == attempt + 1 >= maxAttempts

\* withRetry lines 43-46
retryDelay(opts, attempt) ==
  Min(opts.initialDelay * Pow(opts.backoffFactor, attempt), opts.maxDelay)

\* withRetry(operation, options), lines 29-35: the first call of the operation
RetryCall(m) ==
  /\ Alive
  /\ retry.pc = "idle"
  /\ retry' = [RetryIdle EXCEPT !.pc = "operation", !.maxAttempts = m, !.calls = 1]
  /\ UNCHANGED <<now, Engine, Resilience, BesideRetrying, backoff>>

\* lines 35-54: the operation has returned or thrown
RetryOperation(res) ==
  /\ Alive
  /\ retry.pc = "operation"
  /\ IF res = "ok"
     THEN retry' = [retry EXCEPT !.pc = "done", !.outcome = "value"]
     ELSE IF ~shouldRetry(res) \/ lastAttempt(retry.attempt, retry.maxAttempts)
     THEN retry' = [retry EXCEPT !.pc = "done", !.outcome = "throw",
                                 !.lastError = res]
     ELSE retry' = [retry EXCEPT !.pc = "delay", !.lastError = res,
                                 !.delays = @ + 1,
                                 !.delay = retryDelay(defaultOptions, retry.attempt)]
  /\ UNCHANGED <<now, Engine, Resilience, BesideRetrying, backoff>>

\* lines 54-55, 33-35: the delay is over and attempt is incremented; the
\* operation is called again, or the loop is left and lastError thrown (59)
RetryDelayOver ==
  /\ Alive
  /\ retry.pc = "delay"
  /\ retry' = IF retry.attempt + 1 < retry.maxAttempts
               THEN [retry EXCEPT !.pc = "operation", !.attempt = @ + 1,
                                  !.calls = @ + 1]
               ELSE [retry EXCEPT !.pc = "done", !.attempt = @ + 1,
                                  !.outcome = "throw"]
  /\ UNCHANGED <<now, Engine, Resilience, BesideRetrying, backoff>>

\* the caller resumes with the value or the error
RetryReturn ==
  /\ Alive
  /\ retry.pc = "done"
  /\ retry' = RetryIdle
  /\ UNCHANGED <<now, Engine, Resilience, BesideRetrying, backoff>>

\* ------------------------------------------ getTokenPrice (services/api.ts)
\* LRUCache.get of a cache made with ttl: an entry older than the ttl is not
\* returned (allowStale is off) and is deleted
CacheGet(e, t) == IF e.price # 0 /\ t - e.timestamp <= priceCacheTtl THEN e ELSE NoEntry

\* lines 156-165: the cache is read; a fresh price is returned, or the first
\* source is asked
PriceCall(r, s) ==
  /\ Alive
  /\ priceCalls[r].pc = "idle"
  /\ LET cached == CacheGet(priceCache[s], now) IN
     /\ priceCache' = [priceCache EXCEPT ![s] = cached]
     /\ priceCalls' = [priceCalls EXCEPT ![r] =
          IF cached.price # 0 /\ now - cached.timestamp < priceMaxAge
          THEN [PriceCallIdle EXCEPT !.pc = "done", !.sym = s, !.cached = cached,
                                     !.kind = "value", !.price = cached.price,
                                     !.had = lastCached[s]]
          ELSE LET first == IF s \in COINGECKO_IDS THEN "coingecko" ELSE "binance"
               IN [PriceCallIdle EXCEPT !.pc = first, !.sym = s,
                                        !.cached = cached, !.had = lastCached[s],
                                        !.asked = <<first>>]]
  /\ UNCHANGED <<now, Engine, Resilience, BesidePriceFeed, lastCached>>

\* lines 165-196: fetchCoinGeckoPrice, fetchBinancePrice or fetchCoinbasePrice
\* has returned a price (0: no positive price) or thrown
PriceSource(r, p) ==
  /\ Alive
  /\ priceCalls[r].pc \in {"coingecko", "binance", "coinbase"}
  /\ LET c == priceCalls[r] IN
     IF p > 0
     THEN /\ priceCache' = [priceCache EXCEPT ![c.sym] =
                              [price |-> p, timestamp |-> now]]
          /\ lastCached' = [lastCached EXCEPT ![c.sym] = p]
          /\ priceCalls' = [priceCalls EXCEPT ![r].pc = "done",
                                              ![r].kind = "value", ![r].price = p]
     ELSE /\ UNCHANGED <<priceCache, lastCached>>
          /\ priceCalls' = [priceCalls EXCEPT ![r] =
               IF c.pc = "coingecko"
               THEN [c EXCEPT !.pc = "binance", !.asked = Append(@, "binance")]
               ELSE IF c.pc = "binance"
               THEN [c EXCEPT !.pc = "coinbase", !.asked = Append(@, "coinbase")]
               ELSE IF c.cached.price # 0
               THEN [c EXCEPT !.pc = "done", !.kind = "stale",
                              !.price = c.cached.price]
               ELSE [c EXCEPT !.pc = "done", !.kind = "throw"]]
  /\ UNCHANGED <<now, Engine, Resilience, BesidePriceFeed>>

\* fetchCoinGeckoPrice lines 221-225: the response has status 429; after
\* exponentialBackoff the function calls itself and the request is sent again
PriceRateLimited(r) ==
  /\ Alive
  /\ priceCalls[r].pc = "coingecko"
  /\ Len(priceCalls[r].asked) < MaxUpstream
  /\ priceCalls' = [priceCalls EXCEPT ![r].asked = Append(@, "coingecko")]
  /\ UNCHANGED <<now, Engine, Resilience, BesidePriceFeed, priceCache, lastCached>>

\* the caller resumes with the price or the error
PriceReturn(r) ==
  /\ Alive
  /\ priceCalls[r].pc = "done"
  /\ priceCalls' = [priceCalls EXCEPT ![r] = PriceCallIdle]
  /\ UNCHANGED <<now, Engine, Resilience, BesidePriceFeed, priceCache, lastCached>>

\* the clock, in steps of half the cache's ttl
PriceClockStep ==
  /\ Alive
  /\ now < StartOfTime + MaxPriceClockSteps * (priceCacheTtl \div 2)
  /\ now' = now + priceCacheTtl \div 2
  /\ UNCHANGED <<Engine, Resilience, Services>>

\* --------------------------------- SignalAggregator (signalEvaluator.ts)
\* Array.prototype.sort with a comparator (a, b) => key(b) - key(a), keys[i]
\* being the key of q[i]: descending by key, and stable
SortDescending(q, keys) ==
  LET n == Len(q)
      place(i) == 1 + Cardinality({j \in 1..n :
                        \/ keys[j] > keys[i]
                        \/ keys[j] = keys[i] /\ j < i})
  IN [p \in 1..n |-> q[CHOOSE i \in 1..n : place(i) = p]]

RECURSIVE Flatten(_)
Flatten(qs) == IF qs = <<>> THEN <<>> ELSE Head(qs) \o Flatten(Tail(qs))

\* the keys of the Map in insertion order: the strategies by first occurrence
RECURSIVE StrategiesOf(_)
StrategiesOf(q) ==
  IF q = <<>> THEN <<>>
  ELSE LET init == StrategiesOf(SubSeq(q, 1, Len(q) - 1))
           st == q[Len(q)].strategy
       IN IF \E i \in 1..Len(init) : init[i] = st THEN init ELSE Append(init, st)

\* lines 104-114
groupSignalsByStrategy(q) ==
  LET sts == StrategiesOf(q) IN
  [g \in 1..Len(sts) |->
     [strategy |-> sts[g],
      signals |-> SelectSeq(q, LAMBDA x : x.strategy = sts[g])]]

RankScore(x) == x.confidence + x.momentum    \* twice 0.5 c + 0.5 m

\* lines 128-166, one group; open: the open symbols storage.load returns
FilterGroup(strategy, q, open) ==
  IF strategy = "whale"
  THEN SelectSeq(q, LAMBDA x : x.confidence > whaleMinConfidence)
  ELSE LET raised == [i \in 1..Len(q) |->
                        [q[i] EXCEPT !.confidence =
                           IF @ >= minConfidence THEN @ ELSE minConfidence]]
           valid == SelectSeq(raised, LAMBDA x : x.symbol \notin open)
           ranked == SortDescending(valid, [i \in 1..Len(valid) |-> RankScore(valid[i])])
           maxSignals == IF strategy = "social" \/ strategy = "pump"
                         THEN MAX_SIGNALS_PER_STRATEGY * 2
                         ELSE MAX_SIGNALS_PER_STRATEGY
       IN SubSeq(ranked, 1, Min(maxSignals, Len(ranked)))

\* lines 116-169
filterAndRankSignals(groups, open) ==
  [g \in 1..Len(groups) |->
     [strategy |-> groups[g].strategy,
      signals |-> FilterGroup(groups[g].strategy, groups[g].signals, open)]]

WeightOf(strategy) ==
  IF strategy \in DOMAIN STRATEGY_WEIGHTS THEN STRATEGY_WEIGHTS[strategy]
  ELSE unknownStrategyWeight

\* lines 174-186: the signals of all groups, with confidence * weight
Weighted(filtered) ==
  Flatten([g \in 1..Len(filtered) |->
             [i \in 1..Len(filtered[g].signals) |->
                [filtered[g].signals[i] EXCEPT
                   !.confidence = @ * WeightOf(filtered[g].strategy)]]])

FinalConfidence(x) == x.confidence

\* a combineAndSortSignals that leaves the groups one after the other
combineAndSortSignalsUnsorted(filtered) == Weighted(filtered)

\* lines 171-191
combineAndSortSignals(filtered) ==
  LET scoredSignals == Weighted(filtered) IN
  SortDescending(scoredSignals,
                 [i \in 1..Len(scoredSignals) |-> FinalConfidence(scoredSignals[i])])

\* lines 70-102; the positions in storage do not change during the call
evaluateSignals(q, open) ==
  combineAndSortSignals(filterAndRankSignals(groupSignalsByStrategy(q), open))

\* a signal is added to those of the next call
SignalArrives(k) ==
  /\ Len(incoming) < MaxSignals
  /\ incoming' = Append(incoming, k)
  /\ evaluated' = NotEvaluated
  /\ UNCHANGED <<now, Engine, Resilience, BesideAggregation, storedOpen>>

\* the positions in storage change
StorePositions(S) ==
  /\ S # storedOpen
  /\ storedOpen' = S
  /\ evaluated' = NotEvaluated
  /\ UNCHANGED <<now, Engine, Resilience, BesideAggregation, incoming>>

\* evaluateSignals(signals) is called and returns
EvaluateSignals ==
  /\ ~evaluated.done
  /\ evaluated' = [done |-> TRUE, open |-> storedOpen,
                   out |-> evaluateSignals(incoming, storedOpen)]
  /\ UNCHANGED <<now, Engine, Resilience, BesideAggregation, incoming, storedOpen>>

\* ------------------------------------ JupiterDEX.swap (solana/jupiter.ts)
\* a ceiling test that lets one more percent through
PriceImpactTooHighByTwo(q) == q > MAX_PRICE_IMPACT + 1

\* line 232
PriceImpactTooHigh(q) == q > MAX_PRICE_IMPACT

\* lines 222-231: the wallet test, then the first getQuote
SwapCall(w, connected) ==
  /\ Alive
  /\ swaps[w].pc = "idle"
  /\ swaps' = [swaps EXCEPT ![w] =
        IF connected THEN [SwapIdle EXCEPT !.pc = "quote"]
        ELSE [SwapIdle EXCEPT !.pc = "done", !.status = "throw"]]
  /\ UNCHANGED <<now, Engine, Resilience, BesideDex>>

\* lines 231-255: getQuote has returned; the swap is refused, or the request
\* to the swap endpoint is sent
SwapQuote(w, q) ==
  /\ Alive
  /\ swaps[w].pc = "quote"
  /\ swaps' = [swaps EXCEPT ![w] =
        IF PriceImpactTooHigh(q)
        THEN [@ EXCEPT !.pc = "done", !.impact = q, !.status = "failed",
                       !.amountOut = 0]
        ELSE [@ EXCEPT !.pc = "request", !.impact = q]]
  /\ UNCHANGED <<now, Engine, Resilience, BesideDex>>

\* lines 256-283: the swap response, the signature, the send and the
\* confirmation, each awaited in turn
SwapStep(w) ==
  /\ Alive
  /\ swaps[w].pc \in {"request", "sign", "send", "confirm"}
  /\ \E a \in AmountsOut :
       swaps' = [swaps EXCEPT ![w] =
          IF @.pc = "request" THEN [@ EXCEPT !.pc = "sign"]
          ELSE IF @.pc = "sign" THEN [@ EXCEPT !.pc = "send"]
          ELSE IF @.pc = "send" THEN [@ EXCEPT !.pc = "confirm"]
          ELSE [@ EXCEPT !.pc = "done", !.status = "success", !.amountOut = a]]
  /\ UNCHANGED <<now, Engine, Resilience, BesideDex>>

\* lines 284-288: an awaited step has thrown
SwapThrow(w) ==
  /\ Alive
  /\ swaps[w].pc \in {"quote", "request", "sign", "send", "confirm"}
  /\ swaps' = [swaps EXCEPT ![w] =
        IF @.attempt + 1 >= MAX_RETRIES
        THEN [@ EXCEPT !.pc = "done", !.attempt = @ + 1, !.status = "throw"]
        ELSE [@ EXCEPT !.pc = "retry", !.attempt = @ + 1]]
  /\ UNCHANGED <<now, Engine, Resilience, BesideDex>>

\* lines 288, 229-231: ERROR_RETRY_DELAY is over; getQuote again
SwapRetry(w) ==
  /\ Alive
  /\ swaps[w].pc = "retry"
  /\ swaps' = [swaps EXCEPT ![w].pc = "quote"]
  /\ UNCHANGED <<now, Engine, Resilience, BesideDex>>

\* the caller resumes with the SwapResult or the error
SwapReturn(w) ==
  /\ Alive
  /\ swaps[w].pc = "done"
  /\ swaps' = [swaps EXCEPT ![w] = SwapIdle]
  /\ UNCHANGED <<now, Engine, Resilience, BesideDex>>

\* ------------------------------ exit accounting and sizing (TradingBot)
\* exitPosition line 761: the local pnl
realizedPnl(pos, currentPrice) ==
  (currentPrice - pos.entryPrice) * pos.remainingQuantity * currentPrice

\* line 762: the local roi, in percent
roiOf(pos, currentPrice) ==
  ((currentPrice - pos.entryPrice) * 100) \div pos.entryPrice

RECURSIVE Sum(_)
Sum(q) == IF q = <<>> THEN 0 ELSE Head(q) + Sum(Tail(q))

\* adjustConfidenceMultiplier, lines 885-898, on the multipliers: avgROI is
\* negative exactly when the sum of the roi is
multipliersAdjusted(history, m) ==
  IF Len(history) < minTradeHistory THEN m
  ELSE IF Sum(history) < 0
  THEN [k \in DOMAIN m |-> (m[k] * downwardPercent) \div 100]
  ELSE [k \in DOMAIN m |-> (m[k] * upwardPercent) \div 100]

\* lines 886, 899-901, on tradeHistory
historyAdjusted(history) ==
  IF Len(history) < minTradeHistory THEN history
  ELSE IF Len(history) > maxTradeHistory THEN <<>>
  ELSE history

\* calculatePositionSize(confidence), lines 904-923, in 1/100000 of a dollar;
\* accountValue: this.totalPnL + this.usdcBalance
calculatePositionSize(confidence, m, accountValue) ==
  LET multiplier == IF confidence >= highConfidence THEN m.high
                    ELSE IF confidence >= mediumConfidence THEN m.medium
                    ELSE m.low
      scaledBaseSize == Min((baseSize * (1000 + accountValue)) \div 1000,
                            (accountValue * accountRiskPerTrade) \div stopLossInitial)
      size == scaledBaseSize * multiplier
  IN Min(size, maxSize * 100000)

\* exitPosition lines 761-775, once the sell has returned: pnl and roi, the
\* statistics, tradeHistory.push, adjustConfidenceMultiplier()
ExitAccount(entry, exit, remaining) ==
  /\ Alive
  /\ stats.totalTrades < MaxExits
  /\ LET pos == [entryPrice |-> entry, remainingQuantity |-> remaining]
         pnl == realizedPnl(pos, exit)
         history == Append(tradeHistory, roiOf(pos, exit))
         d == stats.dailyStats
     IN /\ stats' =
             [totalPnL |-> stats.totalPnL + pnl,
              totalTrades |-> stats.totalTrades + 1,
              winningTrades |-> stats.winningTrades + (IF pnl > 0 THEN 1 ELSE 0),
              dailyStats |->
                [trades |-> d.trades + 1,
                 wins |-> d.wins + (IF pnl > 0 THEN 1 ELSE 0),
                 pnl |-> d.pnl + pnl,
                 bestTrade |-> IF pnl > d.bestTrade THEN pnl ELSE d.bestTrade,
                 worstTrade |-> IF pnl < d.worstTrade THEN pnl ELSE d.worstTrade]]
        /\ tradeHistory' = historyAdjusted(history)
        /\ confidenceMultipliers' = multipliersAdjusted(history, confidenceMultipliers)
        /\ lastExit' = [entryPrice |-> entry, exitPrice |-> exit,
                        remainingQuantity |-> remaining]
  /\ UNCHANGED <<now, Engine, Resilience, BesideAccounting, usdcBalance, sizing>>

\* updateUSDCBalance, lines 542-549: the token account's amount
BalanceUpdate(b) ==
  /\ Alive
  /\ usdcBalance' = b
  /\ UNCHANGED <<now, Engine, Resilience, BesideAccounting, stats, tradeHistory,
                 confidenceMultipliers, lastExit, sizing>>

\* evaluateSignal line 619: calculatePositionSize(signal.confidence); the call
\* is kept, with the one before it or with an earlier one
SizeCall(confidence) ==
  /\ Alive
  /\ LET accountValue == stats.totalPnL + usdcBalance
         call == [made |-> TRUE, confidence |-> confidence,
                  accountValue |-> accountValue,
                  size |-> calculatePositionSize(confidence, confidenceMultipliers,
                                                 accountValue)]
     IN \E first \in {sizing.first, sizing.last} :
          sizing' = [first |-> first, last |-> call]
  /\ UNCHANGED <<now, Engine, Resilience, BesideAccounting, stats, tradeHistory,
                 confidenceMultipliers, usdcBalance, lastExit>>

\* -------------------------------------------------------- specifications
Start == Initialize \/ StartCall \/ StartLoops

\* evaluateSignal calls for signals that name the symbols of S
EvalsOf(E, Src, S) ==
  \/ \E e \in E : ScanDone(e)
  \/ \E e \in E, s \in S, src \in Src : EvalBegin(e, s, src)
  \/ \E e \in E : EvalChecks(e)
  \/ \E e \in E : EvalSwap(e)

Evals(E, Src) == EvalsOf(E, Src, Traded)

\* ticks while no position is older than reallocateAfter
YoungTicks(T) ==
  \/ \E t \in T : TickFire(t)
  \/ \E t \in T : UpdatePrice(t)
  \/ \E t \in T : UpdateWhale(t)
  \/ \E t \in T : UpdateTp1(t)
  \/ \E t \in T : UpdateTp2(t)
  \/ \E t \in T : UpdateRvol2(t)

Ticks(T) ==
  \/ YoungTicks(T)
  \/ \E t \in T : UpdateRvol1(t)

Exits(T) ==
  \/ \E t \in T : ExitPrice(t)
  \/ \E t \in T : ExitSwap(t)
  \/ \E t \in T : ExitStore(t)

Stop(H) ==
  \/ \E h \in H : SigReceive(h)
  \/ \E h \in H : StopReport(h)

ProcessExit(H) ==
  \/ \E h \in H : ServerClosed(h)
  \/ \E h \in H : HandlerCatch(h)
  \/ \E h \in H : ForceExit(h)

\* the whole system
Next ==
  \/ Start
  \/ \E e \in EvalIds : ScanTick(e)
  \/ Evals(EvalIds, {"http", "scan", "initial"})
  \/ Ticks(TickIds)
  \/ Exits(Threads)
  \/ Stop(Handlers)
  \/ ProcessExit(Handlers)
  \/ AdvanceTime

Spec == Init /\ [][Next]_vars

\* entries: overlapping evaluateSignal calls (scans and HTTP) and one stop()
NextEntry ==
  \/ Start
  \/ \E e \in EvalIds : ScanTick(e)
  \/ Evals(EvalIds, {"http", "scan", "initial"})
  \/ Exits({SIGTERM})
  \/ Stop({SIGTERM})

SpecEntry == Init /\ [][NextEntry]_vars

\* monitoring: overlapping ticks of the position-monitoring interval, within
\* reallocateAfter of the entries (the clock stands still)
NextMonitor ==
  \/ Start
  \/ Evals({1}, {"http", "initial"})
  \/ YoungTicks(TickIds)
  \/ Exits(TickIds)

SpecMonitor == Init /\ [][NextMonitor]_vars

\* stopping: one monitoring tick and one stop()
NextStop ==
  \/ Start
  \/ Evals({1}, {"http", "initial"})
  \/ Ticks({1})
  \/ Exits({1, SIGTERM})
  \/ Stop({SIGTERM})
  \/ AdvanceTime

SpecStop == Init /\ [][NextStop]_vars

\* one monitoring tick at a time, with the clock
NextPrecedence ==
  \/ Start
  \/ Evals({1}, {"http", "initial"})
  \/ Ticks({1})
  \/ Exits({1})
  \/ AdvanceTime

SpecPrecedence == Init /\ [][NextPrecedence]_vars

\* the signal handlers; a timer that is armed and not cleared fires
NextShutdown ==
  \/ Start
  \/ Evals({1}, {"http", "initial"})
  \/ Exits(Handlers)
  \/ Stop(Handlers)
  \/ ProcessExit(Handlers)

SpecShutdown ==
  /\ Init
  /\ [][NextShutdown]_vars
  /\ \A h \in Handlers : WF_vars(ForceExit(h))

\* the circuit breaker under overlapping fetchBinanceHistory calls
NextCircuit ==
  \/ \E r \in FetchIds : HistoryBegin(r)
  \/ \E r \in FetchIds : HistoryCache(r)
  \/ \E r \in FetchIds : HistoryResponse(r)
  \/ \E r \in FetchIds : HistoryRecord(r)
  \/ \E r \in FetchIds : FetchReturn(r)
  \/ CooldownStep

SpecCircuit == Init /\ [][NextCircuit]_vars

\* all the market-data fetches
NextUpstream ==
  \/ NextCircuit
  \/ \E r \in FetchIds, src \in Sources, kind \in {"price", "history"} :
       PlainFetch(r, src, kind)
  \/ \E r \in FetchIds : PlainResponse(r)

SpecUpstream == Init /\ [][NextUpstream]_vars

\* the rate limiter under overlapping checkRateLimit calls; a timeout that is
\* due fires, and the clock goes on
NextRateLimit ==
  \/ \E r \in CallerIds, src \in {"coinbase"} : RateLimitCall(r, src)
  \/ \E r \in CallerIds : RateLimitWake(r)
  \/ WindowStep

SpecRateLimit ==
  /\ Init
  /\ [][NextRateLimit]_vars
  /\ WF_vars(WindowStep)
  /\ \A r \in CallerIds : WF_vars(RateLimitWake(r))


\* the backoff delays: exponentialBackoff calls and one withRetry call
NextRetry ==
  \/ \E n \in 0..MaxBackoffAttempt : Backoff(n)
  \/ \E m \in {defaultOptions.maxAttempts, MaxRetryAttempts} : RetryCall(m)
  \/ \E res \in {"ok"} \cup RetryErrors : RetryOperation(res)
  \/ RetryDelayOver
  \/ RetryReturn

SpecRetry == Init /\ [][NextRetry]_vars

\* the same, where the operation's promise settles and a timeout fires
SpecRetryFair ==
  /\ SpecRetry
  /\ WF_vars(\E res \in {"ok"} \cup RetryErrors : RetryOperation(res))
  /\ WF_vars(RetryDelayOver)

\* getTokenPrice: overlapping calls, with the clock; 0 stands for a source
\* that throws or returns no positive price
NextPrice ==
  \/ \E r \in PriceIds, s \in Traded : PriceCall(r, s)
  \/ \E r \in PriceIds, p \in FeedPrices \cup {0} : PriceSource(r, p)
  \/ \E r \in PriceIds : PriceReturn(r)
  \/ PriceClockStep

SpecPrice == Init /\ [][NextPrice]_vars

\* evaluateSignals on every list of up to MaxSignals signals
NextAggregate ==
  \/ \E k \in SignalKinds : SignalArrives(k)
  \/ \E S \in SUBSET SignalSymbols : StorePositions(S)
  \/ EvaluateSignals

SpecAggregate == Init /\ [][NextAggregate]_vars

\* entries from signals of any age: made at the call, or more than
\* maxSignalAge before it
SignalTimes == {now, now - maxSignalAge - 1}

NextSignalAge ==
  \/ Start
  \/ \E e \in EvalIds : ScanTick(e)
  \/ \E e \in EvalIds : ScanDone(e)
  \/ \E e \in EvalIds, s \in Traded, src \in {"http", "scan", "initial"},
        ts \in SignalTimes : EvalBeginAt(e, s, src, ts)
  \/ \E e \in EvalIds : EvalChecks(e)
  \/ \E e \in EvalIds : EvalSwap(e)

SpecSignalAge == Init /\ [][NextSignalAge]_vars

\* overlapping JupiterDEX.swap calls
NextSwap ==
  \/ \E w \in SwapIds, connected \in BOOLEAN : SwapCall(w, connected)
  \/ \E w \in SwapIds, q \in QuoteImpacts : SwapQuote(w, q)
  \/ \E w \in SwapIds : SwapStep(w)
  \/ \E w \in SwapIds : SwapThrow(w)
  \/ \E w \in SwapIds : SwapRetry(w)
  \/ \E w \in SwapIds : SwapReturn(w)

SpecSwap == Init /\ [][NextSwap]_vars

\* monitoring of two positions by one tick at a time, within reallocateAfter
\* of the entries
NextIsolation ==
  \/ InitializeFrom(Symbols)
  \/ StartCall
  \/ StartLoops
  \/ \E e \in {1} : ScanTick(e)
  \/ EvalsOf({1}, {"scan", "initial"}, Symbols)
  \/ YoungTicks({1})
  \/ Exits({1})

SpecIsolation == Init /\ [][NextIsolation]_vars

\* the watchdog's restart: stop(), the wait, start()
NextRestart ==
  \/ Start
  \/ Evals({1}, {"http", "initial"})
  \/ Exits({WATCHDOG})
  \/ WatchdogStop
  \/ WatchdogWait
  \/ WatchdogStart

SpecRestart == Init /\ [][NextRestart]_vars

\* startup with a positions query that may fail, then the scans
NextStartup ==
  \/ InitializeLoading(Traded, LoadOutcomes)
  \/ StartCall
  \/ StartLoops
  \/ \E e \in EvalIds : ScanTick(e)
  \/ Evals(EvalIds, {"scan", "initial"})

SpecStartup == Init /\ [][NextStartup]_vars

\* the accounting of exits at a loss and at a profit
RemainingQuantities == {4, 10}

NextPnl ==
  \E entry \in EntryPrices, exit \in {180, 230}, remaining \in RemainingQuantities :
    ExitAccount(entry, exit, remaining)

SpecPnl == Init /\ [][NextPnl]_vars

\* sizing calls between exits at the entry price and at a loss
Confidences == {50, 90}    \* signal.confidence, in hundredths
Balances == {1000, 2000}   \* USDC

NextSizing ==
  \/ \E entry \in EntryPrices, exit \in {180, 200} : ExitAccount(entry, exit, 1)
  \/ \E b \in Balances : BalanceUpdate(b)
  \/ \E c \in Confidences : SizeCall(c)

SpecSizing == Init /\ [][NextSizing]_vars

\* one getTokenPrice call at a time, for a symbol with and one without a
\* CoinGecko id, with sources that fail and a CoinGecko that answers 429
NextFallback ==
  \/ \E s \in Symbols : PriceCall(1, s)
  \/ \E p \in FeedPrices \cup {0} : PriceSource(1, p)
  \/ PriceRateLimited(1)
  \/ PriceReturn(1)
  \/ PriceClockStep

SpecFallback == Init /\ [][NextFallback]_vars

\* ------------------------------------------------------------------ claims
\* C1: in exitPosition a position leaves the table only after its sell
\* succeeded: whenever a caller, resumed from the storeTradeRecord await,
\* removes the entry of its symbol, the swap it awaited returned 'success'.
C1_RemovedOnlyAfterSuccessfulSell ==
  [][\A t \in Threads :
       (/\ th[t].pc = "x_store"
        /\ th'[t].pc # "x_store"
        /\ positions[th[t].sym] # 0
        /\ positions'[th[t].sym] = 0)
       => th[t].result = "success"]_vars

\* C2: no entry is made for a symbol that is in the table: a step never
\* replaces the Position a symbol is mapped to by another Position.
C2_ExistingPositionNotOverwritten ==
  [][\A s \in Symbols :
       positions[s] # 0 => positions'[s] \in {0, positions[s]}]_vars

\* C3: no two exit attempts race on a position: at most one caller of
\* exitPosition has the sell of a given Position in progress.
C3_OneExitSellPerPosition ==
  \A o \in ObjIds :
    Cardinality({t \in Threads :
                   th[t].obj = o /\ th[t].pc \in {"x_swap", "x_store"}}) <= 1

\* C4: a take-profit tier is applied once: a tick that resumes from the
\* partial sell of a tier and decrements remainingQuantity finds the tier's
\* hit flag unset; and a hit flag, once set, stays set.
C4_TierAppliedOnce ==
  [][\A t \in TickIds :
       LET o == th[t].obj IN
       /\ (/\ th[t].pc = "u_tp1"
           /\ th'[t] # th[t]
           /\ heap'[o].remainingQuantity < heap[o].remainingQuantity)
          => ~heap[o].takeProfitLevels.level1.hit
       /\ (/\ th[t].pc = "u_tp2"
           /\ th'[t] # th[t]
           /\ heap'[o].remainingQuantity < heap[o].remainingQuantity)
          => ~heap[o].takeProfitLevels.level2.hit]_vars

\* C5: every live Position has 0 <= remainingQuantity <= quantity.
C5_RemainingWithinQuantity ==
  \A o \in ObjIds :
    /\ 0 <= heap[o].remainingQuantity
    /\ heap[o].remainingQuantity <= heap[o].quantity

\* C6: an evaluateSignal call made after stop() has set shutdownRequested
\* does nothing: it never has an entry swap in flight.
C6_NoEntryAfterStop ==
  \A e \in EvalIds : ev[e].afterStop => ev[e].pc # "e_swap"

\* C7: stop() logs 'stopped' only with an empty table: the step from the
\* end of its updateBotStatus await to the handler is taken with no entry.
C7_StoppedOnlyWhenEmpty ==
  [][\A h \in Handlers :
       (th[h].pc = "s_status" /\ th'[h].pc = "h_closing")
       => Size(positions) = 0]_vars

\* C8: once a SIGTERM or SIGINT handler has run, the process ends: with
\* code 0 only from a handler whose bot.stop() has returned and whose server
\* has closed, and otherwise with code 1; it does not stay alive for ever.
C8_SignalLeadsToExit ==
  /\ [](exitCode = 0 => \E h \in Handlers : th[h].pc = "h_closing")
  /\ [](exitCode \in {-1, 0, 1})
  /\ (\E h \in Handlers : th[h].pc # "idle") ~> (exitCode # -1)

\* the force timeout ends the process while stop() still awaits an exit sell
C8_Witness ==
  /\ exitCode = 1
  /\ \E h \in Handlers : th[h].pc \in {"x_price", "x_swap", "x_store"}

\* C9: a tick that calls exitPosition does so with the first, in the order
\* sideways_timeout, sideways_detected, whale_distribution, trailing_stop,
\* stop_loss, take-profit tiers, volume_decline, of the triggers that hold on
\* the inputs it has read; and it calls exitPosition at most once.  (Stated
\* for a tick with no other tick in flight: SpecPrecedence.)
C9_FirstTriggerInPrecedence ==
  \A t \in TickIds :
    /\ th[t].pc = "x_price" => th[t].reason = First(th[t].held)
    /\ th[t].exits <= 1

\* a tick exits by trailing_stop although the stop loss is crossed as well
C9_Witness ==
  \E t \in TickIds :
    /\ th[t].pc = "x_price"
    /\ th[t].reason = "trailing_stop"
    /\ "stop_loss" \in th[t].held

\* C10: the stop_loss exit of a position fires once, and only at a price at
\* or below stopLoss: at most one caller is in exitPosition with reason
\* stop_loss for a given Position, and it got there with the trigger holding.
C10_StopLossExitOnce ==
  /\ \A t \in TickIds :
       (th[t].pc = "x_price" /\ th[t].reason = "stop_loss")
       => "stop_loss" \in th[t].held
  /\ \A o \in ObjIds :
       Cardinality({t \in Threads :
                      /\ th[t].obj = o
                      /\ th[t].reason = "stop_loss"
                      /\ th[t].pc \in {"x_price", "x_swap", "x_store"}}) <= 1

\* C11: a tick that reads a price within minimumProgress percent of the entry
\* price, for a position opened more than maxHoldingTime ago, exits it with
\* reason sideways_timeout: it does not go on to the later checks.
C11_SidewaysTimeoutFires ==
  [][\A t \in TickIds :
       (th[t].pc = "u_price" /\ th'[t].pc \in {"u_rvol1", "u_whale"})
       => LET pos == heap[th[t].obj] IN
          ~(/\ now - pos.openedAt > maxHoldingTime
            /\ Abs(th'[t].price - pos.entryPrice) * 100
                 < minimumProgress * pos.entryPrice)]_vars

C13_TrailingOnlyAfterFinalTier ==
  \A o \in ObjIds :
    heap[o].trailingStop.active
    => Cardinality({l \in DOMAIN heap[o].takeProfitLevels :
                      heap[o].takeProfitLevels[l].hit})
         = configuredTakeProfitLevels

\* C14: while the trailing stop of a position is active, neither its
\* currentStop nor its highestPrice decreases.
C14_TrailingStopNeverLoosens ==
  [][\A o \in ObjIds :
       (heap[o].trailingStop.active /\ heap'[o] # NoPos)
       => /\ heap'[o].trailingStop.currentStop >= heap[o].trailingStop.currentStop
          /\ heap'[o].trailingStop.highestPrice >= heap[o].trailingStop.highestPrice]_vars

\* C15: a closed circuit opens exactly on the recorded failure that brings
\* its failure count to failureThreshold; a recorded failure adds one to the
\* count, a recorded success resets it to 0, and below failureThreshold a
\* closed circuit stays closed.
C15_OpensAtFailureThreshold ==
  [][\A r \in FetchIds :
       LET c == circuitStates["binance"]
           d == circuitStates'["binance"]
           recorded == fetches[r].pc = "h_result" /\ fetches'[r].pc = "h_done"
       IN
       /\ (recorded /\ fetches[r].result = "ok") => d.failures = 0
       /\ (recorded /\ fetches[r].result = "failed") => d.failures = c.failures + 1
       /\ (c.state = "closed" /\ d.state = "open")
          => /\ \E q \in FetchIds :
                  /\ fetches[q].pc = "h_result"
                  /\ fetches'[q].pc = "h_done"
                  /\ fetches[q].result = "failed"
             /\ d.failures = failureThreshold
       /\ (c.state = "closed" /\ d.failures >= failureThreshold) => d.state = "open"
       /\ (c.state = "closed" /\ d.failures < failureThreshold) => d.state = "closed"]_vars

\* the third failure in a row has opened a circuit that was closed
C15_Witness ==
  /\ circuitStates["binance"].state = "open"
  /\ circuitStates["binance"].failures = failureThreshold
  /\ \E r \in FetchIds :
       /\ fetches[r].pc = "h_done"
       /\ fetches[r].result = "failed"
       /\ fetches[r].saw = "closed"

\* C16: a half-open circuit goes back to open only once halfOpenMaxAttempts
\* attempts have been made in half-open.
C16_ReopensOnlyAfterMaxAttempts ==
  [][\A src \in Sources :
       (circuitStates[src].state = "half-open" /\ circuitStates'[src].state = "open")
       => circuitStates'[src].attempts >= halfOpenMaxAttempts]_vars

\* C17: a success recorded on a half-open circuit closes it with failures and
\* attempts at 0, and nothing else closes a half-open circuit.
C17_HalfOpenClosesOnSuccess ==
  [][LET c == circuitStates["binance"]
         d == circuitStates'["binance"]
         success(r) == /\ fetches[r].pc = "h_result"
                       /\ fetches'[r].pc = "h_done"
                       /\ fetches[r].result = "ok"
     IN
     /\ \A r \in FetchIds :
          (success(r) /\ c.state = "half-open")
          => (d.state = "closed" /\ d.failures = 0 /\ d.attempts = 0)
     /\ (c.state = "half-open" /\ d.state = "closed")
        => \E r \in FetchIds : success(r)]_vars

\* a success has closed a circuit that was half-open
C17_Witness ==
  /\ circuitStates["binance"].state = "closed"
  /\ \E r \in FetchIds :
       /\ fetches[r].pc = "h_done"
       /\ fetches[r].result = "ok"
       /\ fetches[r].saw = "half-open"

\* C18: a request that finds the circuit open less than resetTimeout after
\* its last recorded failure is refused with the circuit left as it is and no
\* request sent; and an open circuit changes state only to half-open, by a
\* check made resetTimeout or more after lastFailure.
C18_OpenRefusesUntilCooldown ==
  [][LET c == circuitStates["binance"]
         d == circuitStates'["binance"]
         checks(r) == fetches[r].pc = "idle" /\ fetches'[r].kind = "history"
     IN
     /\ \A r \in FetchIds :
          (checks(r) /\ c.state = "open" /\ now - c.lastFailure < resetTimeout)
          => /\ fetches'[r].pc = "h_done"
             /\ fetches'[r].result = "refused"
             /\ ~fetches'[r].checked
             /\ d = c
     /\ (c.state = "open" /\ d.state # "open")
        => /\ d.state = "half-open"
           /\ now - c.lastFailure >= resetTimeout
           /\ \E r \in FetchIds : checks(r)]_vars

\* a request is refused half a resetTimeout after the last failure
C18_Witness ==
  /\ circuitStates["binance"].state = "open"
  /\ now - circuitStates["binance"].lastFailure = resetTimeout \div 2
  /\ \E r \in FetchIds :
       /\ fetches[r].pc = "h_done"
       /\ fetches[r].result = "refused"
       /\ fetches[r].saw = "open"

\* C19: a circuit that is closed or open has its attempts counter at 0.
C19_AttemptsZeroOutsideHalfOpen ==
  \A src \in Sources :
    circuitStates[src].state # "half-open" => circuitStates[src].attempts = 0

\* C20: every market-data request in flight has passed its source's circuit
\* check.
C20_EveryUpstreamCallChecked ==
  \A r \in FetchIds : fetches[r].pc = "fetching" => fetches[r].checked

C22_SlidingWindowCapacity ==
  \A src \in Sources :
    \A i \in 1..Len(admitted[src]) :
      Cardinality({j \in 1..Len(admitted[src]) :
                     /\ admitted[src][j] >= admitted[src][i]
                     /\ admitted[src][j] - admitted[src][i] < RATE_LIMITS[src].window})
        <= RATE_LIMITS[src].requests

\* C23: the delay of exponentialBackoff before the jitter is 1000, 2000,
\* 4000, 8000, 16000, 32000 for attempts 0 to 5 and 32000 from then on; the
\* delay of withRetry doubles from 1000 in the same way up to its own ceiling
\* of 10000.
C23_BackoffDelays ==
  /\ backoff.attempt >= 0
     => backoff.delay =
          IF backoff.attempt < 6
          THEN <<1000, 2000, 4000, 8000, 16000, 32000>>[backoff.attempt + 1]
          ELSE 32000
  /\ retry.pc = "delay"
     => retry.delay =
          IF retry.attempt < 4
          THEN <<1000, 2000, 4000, 8000>>[retry.attempt + 1]
          ELSE 10000

\* both delays are at their ceiling
C23_Witness ==
  /\ backoff.attempt > 6
  /\ backoff.delay = 32000
  /\ retry.pc = "delay"
  /\ retry.attempt = 4
  /\ retry.delay = 10000

\* C24: when the operation of withRetry throws an error other than a 429
\* response, ECONNRESET or AbortError, withRetry throws that error at once:
\* the operation is not called again and no delay is taken; a delay is taken
\* only after one of these three.
C24_FatalErrorNotRetried ==
  [][LET retryable == {"status429", "ECONNRESET", "AbortError"}
         failed == /\ retry.pc = "operation"
                   /\ retry'.pc # "operation"
                   /\ retry'.outcome # "value"
     IN
     /\ (failed /\ retry'.lastError \notin retryable)
        => /\ retry'.pc = "done"
           /\ retry'.outcome = "throw"
           /\ retry'.calls = retry.calls
           /\ retry'.delays = retry.delays
     /\ (retry.pc = "operation" /\ retry'.pc = "delay")
        => retry'.lastError \in retryable
     /\ (retry.pc = "done" /\ retry.outcome = "throw" /\ retry' # retry
         /\ retry.lastError \notin retryable)
        => retry'.pc = "idle"]_vars

\* a fatal error is thrown after a retry
C24_Witness ==
  /\ retry.pc = "done"
  /\ retry.outcome = "throw"
  /\ retry.lastError = "status500"
  /\ retry.calls = 2

\* C25: a getTokenPrice call whose three sources have all failed returns a
\* cached price when one had been cached for the symbol before the call,
\* however long before (the one last cached, when no other call has cached a
\* price meanwhile), and throws when none was ever cached.
C25_StalePriceOnAllSourcesFailed ==
  [][\A r \in PriceIds :
       (priceCalls[r].pc = "coinbase" /\ priceCalls'[r].pc = "done"
        /\ priceCalls'[r].kind # "value")
       => LET c == priceCalls[r] IN
          /\ c.had # 0 => priceCalls'[r].kind = "stale"
          /\ (c.had # 0 /\ lastCached[c.sym] = c.had) => priceCalls'[r].price = c.had
          /\ lastCached[c.sym] = 0 => priceCalls'[r].kind = "throw"]_vars

\* C26: the signals evaluateSignals returns are in descending order of their
\* final confidence (the signal's confidence times the weight of its
\* strategy): each one's is at least the next one's.
C26_SortedByWeightedConfidence ==
  evaluated.done
  => \A i \in 1..(Len(evaluated.out) - 1) :
       evaluated.out[i].confidence >= evaluated.out[i + 1].confidence

\* the result interleaves the groups: a whale signal between two scalp ones
C26_Witness ==
  /\ evaluated.done
  /\ Len(evaluated.out) >= 3
  /\ evaluated.out[1].strategy = "scalp"
  /\ evaluated.out[2].strategy = "whale"
  /\ evaluated.out[3].strategy = "scalp"
  /\ incoming[1].strategy = "whale"

\* C27: no signal that evaluateSignals returns, of any strategy, is for a
\* symbol with an open position in storage at the time of the call.
C27_NoSignalForOpenPosition ==
  evaluated.done
  => \A i \in 1..Len(evaluated.out) : evaluated.out[i].symbol \notin evaluated.open

\* C28: evaluateSignals returns at most MAX_SIGNALS_PER_STRATEGY signals of a
\* strategy, and at most twice as many of social and of pump.
C28_GroupSizeCapped ==
  evaluated.done
  => \A st \in {"whale", "scalp", "social", "pump"} :
       Cardinality({i \in 1..Len(evaluated.out) : evaluated.out[i].strategy = st})
         <= IF st \in {"social", "pump"}
            THEN 2 * MAX_SIGNALS_PER_STRATEGY
            ELSE MAX_SIGNALS_PER_STRATEGY

\* C29: no evaluateSignal call, of a scan, of the initial scan of start() or
\* made directly, has its entry swap in flight for a signal whose timestamp
\* is more than maxSignalAge old.
C29_NoEntryFromOldSignal ==
  \A e \in EvalIds :
    ev[e].pc = "e_swap" => now - ev[e].timestamp <= maxSignalAge

\* C30: a swap call whose quote has a priceImpactPct above MAX_PRICE_IMPACT
\* returns status 'failed' with amountOut 0 at once, with no retry; and no
\* swap request, signature or send is in progress for such a quote.
C30_HighImpactNeverSubmitted ==
  /\ \A w \in SwapIds :
       swaps[w].pc \in {"request", "sign", "send", "confirm"}
       => swaps[w].impact <= MAX_PRICE_IMPACT
  /\ \A w \in SwapIds :
       (swaps[w].status = "success") => swaps[w].impact <= MAX_PRICE_IMPACT
  /\ \A w \in SwapIds :
       (swaps[w].pc # "idle" /\ swaps[w].impact > MAX_PRICE_IMPACT)
       => /\ swaps[w].pc = "done"
          /\ swaps[w].status = "failed"
          /\ swaps[w].amountOut = 0

\* a swap is refused for its price impact on a retry
C30_Witness ==
  \E w \in SwapIds :
    /\ swaps[w].pc = "done"
    /\ swaps[w].status = "failed"
    /\ swaps[w].impact = 4
    /\ swaps[w].attempt = 1

\* C36: every symbol in the live table has an entry in positionStartTimes, and
\* the entry holds the time the position was opened (its openedAt).
C36_StartTimeForEveryPosition ==
  \A s \in Symbols :
    positions[s] # 0
    => /\ positionStartTimes[s] # -1
       /\ positionStartTimes[s] = heap[positions[s]].openedAt

C38_TierAppliedOnlyOnSuccess ==
  [][\A t \in TickIds :
       LET o == th[t].obj IN
       (/\ th[t].pc \in {"u_tp1", "u_tp2"}
        /\ th'[t] # th[t]
        /\ th'[t].result # "success"
        /\ heap'[o] # NoPos)
       => /\ heap'[o].remainingQuantity = heap[o].remainingQuantity
          /\ heap'[o].takeProfitLevels = heap[o].takeProfitLevels]_vars

\* a tick ends only once it has visited every position of the table
TickVisitsEveryPosition ==
  \A t \in TickIds :
    (th[t].pc # "idle" /\ th'[t].pc = "idle")
    => \A s \in Symbols : positions'[s] # 0 => s \in th[t].seen

\* the intervals are cleared only by a callback that finds isRunning false
LoopsKeepRunning ==
  /\ (positionsInterval /\ ~positionsInterval') => ~isRunning
  /\ (signalsInterval /\ ~signalsInterval') => ~isRunning

\* a position leaves the table only when a tick's exit sell has succeeded
FailingPositionStays ==
  \A s \in Symbols :
    (positions[s] # 0 /\ positions'[s] = 0)
    => \E t \in TickIds :
         th[t].pc = "x_store" /\ th[t].sym = s /\ th[t].result = "success"

\* C31: a failure while one position is monitored stays with that position and
\* that tick: the position is still in the table unless its exit sell
\* succeeded, the tick goes on to every other position of the table, and the
\* monitoring and signal intervals are not cleared while the bot runs.
C31_FailureIsolated ==
  [][FailingPositionStays /\ TickVisitsEveryPosition /\ LoopsKeepRunning]_vars

\* C37: the bot can be restarted: the start() that the watchdog calls once
\* its stop() has returned and its wait is over leaves isRunning true.
C37_StartAfterStopRuns ==
  [][(th[WATCHDOG].pc = "w_wait" /\ th'[WATCHDOG].pc # "w_wait")
     => isRunning']_vars

\* C32: when the persisted open positions cannot be loaded, because the query
\* rejects or resolves with an error, initialize() rejects: it does not
\* resolve with the table as it would be with no open position.
C32_LoadFailureSurfaces ==
  startup.load \in {"error", "throw"} => startup.outcome = "rejected"

\* C33: sizing is deterministic: two calculatePositionSize calls with the same
\* confidence and the same account value return the same size.
C33_SizingDeterministic ==
  (/\ sizing.first.made
   /\ sizing.first.confidence = sizing.last.confidence
   /\ sizing.first.accountValue = sizing.last.accountValue)
  => sizing.first.size = sizing.last.size

\* C34: the pnl that a full exit adds to totalPnL and to the daily stats is
\* (exitPrice - entryPrice) * remainingQuantity.
C34_RealizedPnl ==
  [][stats'.totalTrades # stats.totalTrades
     => LET pnl == (lastExit'.exitPrice - lastExit'.entryPrice)
                     * lastExit'.remainingQuantity
        IN /\ stats'.totalPnL = stats.totalPnL + pnl
           /\ stats'.dailyStats.pnl = stats.dailyStats.pnl + pnl]_vars

\* C39: withRetry calls the operation at most maxAttempts times and ends: with
\* the first value the operation returns, after no further call; or, when
\* every attempt failed with an error that is retried, by throwing the last
\* error after exactly maxAttempts calls and maxAttempts - 1 delays.
C39_RetryTerminates ==
  /\ [](retry.calls <= retry.maxAttempts)
  /\ []((retry.pc = "done" /\ retry.outcome = "value")
          => /\ retry.calls = retry.attempt + 1
             /\ retry.delays = retry.attempt)
  /\ []((retry.pc = "done" /\ retry.outcome = "throw" /\ shouldRetry(retry.lastError))
          => /\ retry.calls = retry.maxAttempts
             /\ retry.delays = retry.maxAttempts - 1)
  /\ (retry.pc = "operation") ~> (retry.pc = "done")

\* three calls failed with an error that is retried, with two delays between
C39_Witness ==
  /\ retry.pc = "done"
  /\ retry.outcome = "throw"
  /\ shouldRetry(retry.lastError)
  /\ retry.maxAttempts = defaultOptions.maxAttempts
  /\ retry.calls = 3
  /\ retry.delays = 2

\* C40: a getTokenPrice call sends its requests in the order coingecko (only
\* for a symbol with a CoinGecko id), binance, coinbase, one request per
\* source at most; the price it returns from a source is positive and is the
\* one it cached.
C40_FallbackBounded ==
  \A r \in PriceIds :
    LET c == priceCalls[r]
        rank(src) == CHOOSE i \in 1..Len(SourceOrder) : SourceOrder[i] = src
    IN /\ Len(c.asked) <= Len(SourceOrder)
       /\ \A i, j \in 1..Len(c.asked) :
            i < j => rank(c.asked[i]) < rank(c.asked[j])
       /\ (\E i \in 1..Len(c.asked) : c.asked[i] = "coingecko")
            => c.sym \in COINGECKO_IDS
       /\ (c.pc = "done" /\ c.kind = "value" /\ c.asked # <<>>)
            => c.price > 0 /\ lastCached[c.sym] = c.price
====
